---- MODULE Spec2Model ----
(***************************************************************************)
(* Similarity ranking and search engine of scientific-semantic-search.     *)
(*                                                                         *)
(*   ai/semantic_search/similarity_calculator.py  SimilarityCalculator     *)
(*   ai/semantic_search/search_engine.py          SemanticSearchEngine     *)
(*                                                                         *)
(* Floating-point numbers are modelled as fixed-point integers: the float  *)
(* x is the integer x * Scale, and every division and square root rounds   *)
(* to the nearest representable value, as IEEE arithmetic does.  A 0/0     *)
(* division gives NaN, as numpy's does.  Document indices are 0-based, as  *)
(* in the code; row i of a corpus is docs[i + 1].                          *)
(***************************************************************************)
EXTENDS Integers, Sequences, FiniteSets, TLC

VARIABLES
    embeddings,   \* self.embeddings: the rows of the loaded .npy matrix
    metadata,     \* self.metadata: the loaded JSON list
    pc,           \* the sequential caller: "idle" or "returned"
    ret,          \* the last call: [op, args.., result]
    lpc,          \* load_data running in its own thread: position
    lnew,         \* the file contents that thread is loading
    spc,          \* search running in its own thread: position
    sargs,        \* its arguments [q, k, threshold]
    ssnap,        \* the store as it was when that search started
    stop,         \* its top-k: (indices, scores) from find_top_k_similar
    spos,         \* its position in zip(indices, scores)
    sresults,     \* its results list, then its return value
    cluster_labels,  \* TopicClustering.cluster_labels: <<>> until assigned, then <<labels>>
    kmeans_model,    \* TopicClustering.kmeans_model: <<>> until assigned, then <<model>>
    analysis_file,   \* the output file of save_clustering_results: <<>> or <<profiles>>
    labels_file,     \* its labels file: <<>> or <<labels>>
    output_file,     \* the .npy file of generate_and_save: <<>> or <<matrix>>
    metadata_file,   \* its metadata file: <<>> or <<records>>
    search_history,  \* routes_simple.search_history
    logger_history,  \* server_metrics_logger.search_history
    now,             \* the clock datetime.now() reads
    frames,          \* the frames of safe_request, the outermost first
    http_requests,   \* the requests.get calls made since safe_request was called
    request_result   \* how the call of safe_request stands

vars ==
    <<embeddings, metadata, pc, ret, lpc, lnew, spc, sargs, ssnap, stop, spos, sresults,
      cluster_labels, kmeans_model, analysis_file, labels_file,
      output_file, metadata_file, search_history, logger_history, now,
      frames, http_requests, request_result>>

storeVars == <<embeddings, metadata>>
callVars == <<pc, ret>>
genVars == <<output_file, metadata_file>>
historyVars == <<search_history, logger_history, now>>
requestVars == <<frames, http_requests, request_result>>
toolVars == <<genVars, historyVars, requestVars>>
threadVars == <<lpc, lnew, spc, sargs, ssnap, stop, spos, sresults>>
clusterVars == <<cluster_labels, kmeans_model, analysis_file, labels_file>>

-----------------------------------------------------------------------------
(* Bounds of the model *)

\* fixed-point unit: the float 1.0
Scale == 100
\* most rows of a corpus
MaxN == 3
\* largest k asked for
MaxK == 3

\* not-a-number: outside the range of every value the model computes
NaN == 1000 * Scale

\* embedding rows of dimension 2: the zero row, a unit row, a diagonal
\* row and the negated unit row
Rows == {<<0, 0>>, <<1, 0>>, <<1, 1>>, <<-1, 0>>}

\* query vectors: dimension 2, or dimension 3 (a mismatch with the store)
QueryVecs == {<<1, 0>>, <<1, 1>>, <<0, 0>>, <<1, 0, 0>>}

RECURSIVE SeqsUpTo(_, _)
SeqsUpTo(S, n) ==
    IF n = 0 THEN {<<>>}
    ELSE LET shorter == SeqsUpTo(S, n - 1)
         IN shorter \cup {Append(s, x) : s \in {t \in shorter : Len(t) = n - 1}, x \in S}

Corpora == SeqsUpTo(Rows, MaxN)

Thresholds == {0, Scale \div 2, (9 * Scale) \div 10}

-----------------------------------------------------------------------------
(* Arithmetic *)

Abs(x) == IF x < 0 THEN -x ELSE x

Sign(x) == IF x < 0 THEN -1 ELSE 1

RECURSIVE SqrtSearch(_, _, _)
SqrtSearch(x, lo, hi) ==
    IF lo >= hi THEN lo
    ELSE LET mid == (lo + hi + 1) \div 2
         IN IF mid * mid <= x THEN SqrtSearch(x, mid, hi)
            ELSE SqrtSearch(x, lo, mid - 1)

\* the square root of the integer n as a fixed-point number, rounded to nearest
FSqrt(n) ==
    LET x == n * Scale * Scale
        r == SqrtSearch(x, 0, n * Scale)
    IN IF (x - r * r) > r THEN r + 1 ELSE r

\* num / den rounded to nearest; numpy gives nan for 0/0
FDiv(num, den) ==
    IF den = 0 THEN NaN
    ELSE Sign(num) * Sign(den) * ((2 * Abs(num) + Abs(den)) \div (2 * Abs(den)))

RECURSIVE SumSeq(_)
SumSeq(s) == IF s = <<>> THEN 0 ELSE Head(s) + SumSeq(Tail(s))

\* np.linalg.norm(vec)
Norm(v) == FSqrt(SumSeq([i \in 1..Len(v) |-> v[i] * v[i]]))

\* np.dot(a, b) of two vectors of one dimension
Dot(a, b) == SumSeq([i \in 1..Len(a) |-> a[i] * b[i]])

\* Python's <, false whenever an operand is nan
Lt(a, b) == a # NaN /\ b # NaN /\ a < b

\* Python's >=, false whenever an operand is nan
Ge(a, b) == a # NaN /\ b # NaN /\ a >= b

\* Python's min(a, b) and max(a, b): the first argument unless the second beats it
PyMin(a, b) == IF Lt(b, a) THEN b ELSE a

PyMax(a, b) == IF Lt(a, b) THEN b ELSE a

\* np.clip(x, lo, hi): nan stays nan
NpClip(x, lo, hi) == IF x = NaN THEN NaN ELSE IF x < lo THEN lo ELSE IF x > hi THEN hi ELSE x

-----------------------------------------------------------------------------
(* SimilarityCalculator *)

\* the mutant of calculate_cosine_similarity without its zero-norm test
CosineNoZeroTest(vec1, vec2) ==
    LET norm1 == Norm(vec1)
        norm2 == Norm(vec2)
    IN IF Len(vec1) # Len(vec2) THEN 0
       ELSE PyMax(-Scale, PyMin(Scale, FDiv(Dot(vec1, vec2) * Scale * Scale * Scale, norm1 * norm2)))

\* the mutant of calculate_cosine_similarity without its clamp
CosineNoClamp(vec1, vec2) ==
    LET norm1 == Norm(vec1)
        norm2 == Norm(vec2)
    IN IF norm1 = 0 \/ norm2 = 0 THEN 0
       ELSE IF Len(vec1) # Len(vec2) THEN 0
       ELSE FDiv(Dot(vec1, vec2) * Scale * Scale * Scale, norm1 * norm2)

\* calculate_cosine_similarity(vec1, vec2); np.dot raises on vectors of
\* different dimension, and the except clause returns 0.0
calculate_cosine_similarity(vec1, vec2) ==
    LET norm1 == Norm(vec1)
        norm2 == Norm(vec2)
    IN IF norm1 = 0 \/ norm2 = 0 THEN 0
       ELSE IF Len(vec1) # Len(vec2) THEN 0
       ELSE LET similarity == FDiv(Dot(vec1, vec2) * Scale * Scale * Scale, norm1 * norm2)
            IN PyMax(-Scale, PyMin(Scale, similarity))

\* np.zeros(len(doc_embeddings))
Zeros(n) == [i \in 1..n |-> 0]

\* the mutant of calculate_batch_similarity that divides every row, valid or not
BatchNoMask(query_embedding, doc_embeddings) ==
    LET n == Len(doc_embeddings)
        query_norm == Norm(query_embedding)
        doc_norms == [i \in 1..n |-> Norm(doc_embeddings[i])]
    IN IF query_norm = 0 THEN Zeros(n)
       ELSE IF \E i \in 1..n : Len(doc_embeddings[i]) # Len(query_embedding) THEN Zeros(n)
       ELSE [i \in 1..n |->
                NpClip(FDiv(Dot(doc_embeddings[i], query_embedding) * Scale * Scale * Scale,
                            doc_norms[i] * query_norm), -Scale, Scale)]

\* calculate_batch_similarity(query_embedding, doc_embeddings); np.dot raises
\* when the rows and the query differ in dimension, and the except clause
\* returns zeros
calculate_batch_similarity(query_embedding, doc_embeddings) ==
    LET n == Len(doc_embeddings)
        query_norm == Norm(query_embedding)
        doc_norms == [i \in 1..n |-> Norm(doc_embeddings[i])]
        valid_docs == [i \in 1..n |-> doc_norms[i] > 0]
    IN IF query_norm = 0 \/ ~(\E i \in 1..n : valid_docs[i]) THEN Zeros(n)
       ELSE IF \E i \in 1..n : valid_docs[i] /\ Len(doc_embeddings[i]) # Len(query_embedding)
            THEN Zeros(n)
       ELSE LET similarities ==
                    [i \in 1..n |->
                        IF valid_docs[i]
                        THEN FDiv(Dot(doc_embeddings[i], query_embedding) * Scale * Scale * Scale,
                                  doc_norms[i] * query_norm)
                        ELSE 0]
            IN [i \in 1..n |-> NpClip(similarities[i], -Scale, Scale)]

\* the permutations of 0..n-1, as sequences: n-1 put at each place of each
\* permutation of 0..n-2
RECURSIVE Perms(_)
Perms(n) ==
    IF n = 0 THEN {<<>>}
    ELSE {[i \in 1..n |-> IF i < at THEN p[i] ELSE IF i = at THEN n - 1 ELSE p[i - 1]] :
             p \in Perms(n - 1), at \in 1..n}

\* -a, elementwise
Neg(a) == [i \in 1..Len(a) |-> -a[i]]

\* a[indices], numpy's indexing of an array by an index array
Take(a, indices) == [i \in 1..Len(indices) |-> a[indices[i] + 1]]

\* a[::-1]
Reversed(a) == [i \in 1..Len(a) |-> a[Len(a) + 1 - i]]

\* a[:k]
Prefix(a, k) == [i \in 1..(IF k < Len(a) THEN k ELSE Len(a)) |-> a[i]]

\* np.argsort(a): every index order that sorts a ascending (the default
\* sort is not stable: equal values come in any order)
ArgSort(a) ==
    {p \in Perms(Len(a)) : \A i, j \in 1..Len(a) : i < j => a[p[i] + 1] <= a[p[j] + 1]}

\* np.argpartition(a, kth), kth < len(a): every index order that puts the
\* kth smallest value at position kth, no larger value before it and no
\* smaller value after it
ArgPartition(a, kth) ==
    {p \in Perms(Len(a)) :
        /\ \A i \in 1..Len(a) : i < kth + 1 => a[p[i] + 1] <= a[p[kth + 1] + 1]
        /\ \A i \in 1..Len(a) : i > kth + 1 => a[p[i] + 1] >= a[p[kth + 1] + 1]}

\* the mutant of find_top_k_similar that takes the first k rows of the
\* matrix and ranks these
TopKFirstRows(query_embedding, doc_embeddings, k) ==
    LET similarities == calculate_batch_similarity(query_embedding, doc_embeddings)
        first == [i \in 1..(IF k < Len(similarities) THEN k ELSE Len(similarities)) |-> i - 1]
    IN {<<Take(first, order), Take(similarities, Take(first, order))>> :
           order \in ArgSort(Take(Neg(similarities), first))}

\* the mutant of find_top_k_similar whose small-corpus branch forgets [::-1]
TopKNoReverse(query_embedding, doc_embeddings, k) ==
    LET similarities == calculate_batch_similarity(query_embedding, doc_embeddings)
    IN IF Len(similarities) <= k
       THEN {<<indices, Take(similarities, indices)>> : indices \in ArgSort(similarities)}
       ELSE UNION {
                {<<Take(indices, order), Take(similarities, Take(indices, order))>> :
                    order \in ArgSort(Take(Neg(similarities), indices))} :
                indices \in {Prefix(part, k) : part \in ArgPartition(Neg(similarities), k)}}

\* the mutant of find_top_k_similar that partitions the similarities, not
\* their negation
TopKNoNegation(query_embedding, doc_embeddings, k) ==
    LET similarities == calculate_batch_similarity(query_embedding, doc_embeddings)
    IN IF Len(similarities) <= k
       THEN {<<indices, Take(similarities, indices)>> :
                indices \in {Reversed(p) : p \in ArgSort(similarities)}}
       ELSE UNION {
                {<<Take(indices, order), Take(similarities, Take(indices, order))>> :
                    order \in ArgSort(Take(Neg(similarities), indices))} :
                indices \in {Prefix(part, k) : part \in ArgPartition(similarities, k)}}

\* find_top_k_similar(query_embedding, doc_embeddings, k), k >= 0: the set of
\* the (indices, scores) pairs it may return
find_top_k_similar(query_embedding, doc_embeddings, k) ==
    LET similarities == calculate_batch_similarity(query_embedding, doc_embeddings)
    IN IF Len(similarities) <= k
       THEN {<<indices, Take(similarities, indices)>> :
                indices \in {Reversed(p) : p \in ArgSort(similarities)}}
       ELSE UNION {
                {<<Take(indices, order), Take(similarities, Take(indices, order))>> :
                    order \in ArgSort(Take(Neg(similarities), indices))} :
                indices \in {Prefix(part, k) : part \in ArgPartition(Neg(similarities), k)}}

\* the mutant of convert_to_percentage without its clamp
PercentageNoClamp(cosine_score) == 50 * (cosine_score + Scale)

\* convert_to_percentage(cosine_score), in fixed point: the result counts
\* hundredths of a percent at Scale 100, so 100 percent is 100 * Scale
convert_to_percentage(cosine_score) ==
    LET normalized2 == cosine_score + Scale   \* twice (cosine_score + 1) / 2
        percentage == 50 * normalized2        \* normalized * 100
    IN PyMin(100 * Scale, PyMax(0, percentage))

-----------------------------------------------------------------------------
(* The calls of the pure functions *)

NoCall == [op |-> "none"]

InitStore == embeddings = <<>> /\ metadata = <<>>

NoFile == [embFile |-> "none", emb |-> <<>>, metaFile |-> "none", meta |-> <<>>]

NoArgs == [query |-> "", k |-> 0, threshold |-> 0]

NoSnap == [emb |-> <<>>, meta |-> <<>>]

NoTop == <<<<>>, <<>>>>

\* no clustering has run, and no result file is written
InitClusters ==
    /\ cluster_labels = <<>> /\ kmeans_model = <<>>
    /\ analysis_file = <<>> /\ labels_file = <<>>

\* nothing is generated, logged or requested
InitTools ==
    /\ output_file = <<>> /\ metadata_file = <<>>
    /\ search_history = <<>> /\ logger_history = <<>> /\ now = 0
    /\ frames = <<>> /\ http_requests = 0 /\ request_result = "none"

InitThreads ==
    /\ lpc = "idle" /\ lnew = NoFile
    /\ spc = "idle" /\ sargs = NoArgs /\ ssnap = NoSnap /\ stop = NoTop
    /\ spos = 0 /\ sresults = <<>>

InitSim ==
    InitStore /\ pc = "idle" /\ ret = NoCall /\ InitThreads /\ InitClusters /\ InitTools

CallCosine ==
    /\ pc = "idle"
    /\ \E v1 \in Rows \cup QueryVecs, v2 \in Rows :
          ret' = [op |-> "cosine", vec1 |-> v1, vec2 |-> v2,
                  result |-> calculate_cosine_similarity(v1, v2)]
    /\ pc' = "returned"
    /\ UNCHANGED <<storeVars, threadVars, clusterVars, toolVars>>

CallBatch ==
    /\ pc = "idle"
    /\ \E q \in QueryVecs, docs \in Corpora :
          ret' = [op |-> "batch", query |-> q, docs |-> docs,
                  result |-> calculate_batch_similarity(q, docs)]
    /\ pc' = "returned"
    /\ UNCHANGED <<storeVars, threadVars, clusterVars, toolVars>>

CallTopK ==
    /\ pc = "idle"
    /\ \E q \in QueryVecs, docs \in Corpora, k \in 0..MaxK :
          \E r \in find_top_k_similar(q, docs, k) :
             ret' = [op |-> "topk", query |-> q, docs |-> docs, k |-> k,
                     indices |-> r[1], scores |-> r[2]]
    /\ pc' = "returned"
    /\ UNCHANGED <<storeVars, threadVars, clusterVars, toolVars>>

\* the scores convert_to_percentage is called on: cosines, and scores outside
\* [-1, 1]
PercentageScores == (-2 * Scale)..(2 * Scale)

CallPercentage ==
    /\ pc = "idle"
    /\ \E score \in PercentageScores :
          ret' = [op |-> "percentage", cosine_score |-> score,
                  result |-> convert_to_percentage(score)]
    /\ pc' = "returned"
    /\ UNCHANGED <<storeVars, threadVars, clusterVars, toolVars>>

\* the caller takes the returned value
Return ==
    /\ pc = "returned"
    /\ pc' = "idle"
    /\ ret' = NoCall
    /\ UNCHANGED <<storeVars, threadVars, clusterVars, toolVars>>

NextSim == CallCosine \/ CallBatch \/ CallTopK \/ CallPercentage \/ Return

SpecSim == InitSim /\ [][NextSim]_vars

-----------------------------------------------------------------------------
(* SemanticSearchEngine: the data *)

\* the rows of the matrix the constructor loads
StoreRows == {<<0, 0>>, <<1, 0>>, <<1, 1>>}

StoreCorpora == SeqsUpTo(StoreRows, MaxN)

\* a metadata record with every recognised field, and one with a title only
MetaA == [id |-> "A", title |-> "tA", authors |-> "aA", categories |-> "cA", date |-> "dA"]

MetaB == [title |-> "tB"]

MetaRecords == {MetaA, MetaB}

\* the metadata lists the constructor may load: empty, shorter than, as long
\* as and longer than the matrix
Metas == {<<>>, <<MetaA>>, <<MetaB, MetaA>>, <<MetaA, MetaB, MetaB>>}

\* query texts, and the external encoder's embedding of each
Queries == {"unit", "diagonal", "zero", "wide"}

\* encode_query(query): self.model.encode([query])[0]
encode_query(query) ==
    CASE query = "unit" -> <<1, 0>>
      [] query = "diagonal" -> <<1, 1>>
      [] query = "zero" -> <<0, 0>>
      [] OTHER -> <<1, 0, 0>>

\* meta.get(key, default)
MetaGet(meta, key, default) == IF key \in DOMAIN meta THEN meta[key] ELSE default

\* the mutant of _get_match_quality whose lower bounds are exclusive
MatchQualityExclusive(score) ==
    IF 10 * score > 8 * Scale THEN "Excellente correspondance"
    ELSE IF 10 * score > 6 * Scale THEN "Bonne correspondance"
    ELSE IF 10 * score > 4 * Scale THEN "Correspondance moderee"
    ELSE IF 10 * score > 2 * Scale THEN "Faible correspondance"
    ELSE "Tres faible correspondance"

\* _get_match_quality(score): score >= 0.8, 0.6, 0.4, 0.2 in turn
MatchQuality(score) ==
    IF 10 * score >= 8 * Scale THEN "Excellente correspondance"
    ELSE IF 10 * score >= 6 * Scale THEN "Bonne correspondance"
    ELSE IF 10 * score >= 4 * Scale THEN "Correspondance moderee"
    ELSE IF 10 * score >= 2 * Scale THEN "Faible correspondance"
    ELSE "Tres faible correspondance"

\* the mutant of _create_result that gives a hit beyond the metadata list
\* the last record of the list
CreateResultLastMeta(meta, idx, score, query) ==
    LET result == [query |-> query,
                   document_index |-> idx,
                   similarity_score |-> score,
                   similarity_percentage |-> convert_to_percentage(score),
                   match_quality |-> MatchQuality(score)]
    IN IF meta # <<>>
       THEN LET m == meta[IF idx < Len(meta) THEN idx + 1 ELSE Len(meta)]
            IN result @@ [id |-> MetaGet(m, "id", "doc_" \o ToString(idx)),
                          title |-> MetaGet(m, "title", ""),
                          authors |-> MetaGet(m, "authors", ""),
                          categories |-> MetaGet(m, "categories", ""),
                          date |-> MetaGet(m, "date", "")]
       ELSE result

\* _create_result(idx, score, query) against the metadata list meta
CreateResult(meta, idx, score, query) ==
    LET result == [query |-> query,
                   document_index |-> idx,
                   similarity_score |-> score,
                   similarity_percentage |-> convert_to_percentage(score),
                   match_quality |-> MatchQuality(score)]
    IN IF meta # <<>> /\ idx < Len(meta)
       THEN LET m == meta[idx + 1]
            IN result @@ [id |-> MetaGet(m, "id", "doc_" \o ToString(idx)),
                          title |-> MetaGet(m, "title", ""),
                          authors |-> MetaGet(m, "authors", ""),
                          categories |-> MetaGet(m, "categories", ""),
                          date |-> MetaGet(m, "date", "")]
       ELSE result

\* the kinds of record search returns, told apart by their keys as callers do
IsSentinel(r) == "message" \in DOMAIN r

IsError(r) == "error" \in DOMAIN r

IsDocument(r) == "document_index" \in DOMAIN r

-----------------------------------------------------------------------------
(* SemanticSearchEngine: search *)

\* the mutant of the threshold test that lets every entry through
KeepAll(score, threshold) == TRUE

\* line 93: if score >= threshold
Keep(score, threshold) == Ge(score, threshold)

\* the mutant of the loop of lines 91-96 that inserts each result at the
\* head of the list
RECURSIVE FilterFromPrepending(_, _, _, _, _, _, _)
FilterFromPrepending(meta, indices, scores, pos, results, query, threshold) ==
    IF pos > Len(indices) \/ pos > Len(scores) THEN results
    ELSE FilterFromPrepending(meta, indices, scores, pos + 1,
                    IF Ge(scores[pos], threshold)
                    THEN <<CreateResult(meta, indices[pos], scores[pos], query)>> \o results
                    ELSE results,
                    query, threshold)

\* lines 91-96: the loop over zip(indices, scores) from position pos on,
\* appending to results
RECURSIVE FilterFrom(_, _, _, _, _, _, _)
FilterFrom(meta, indices, scores, pos, results, query, threshold) ==
    IF pos > Len(indices) \/ pos > Len(scores) THEN results
    ELSE FilterFrom(meta, indices, scores, pos + 1,
                    IF Keep(scores[pos], threshold)
                    THEN Append(results, CreateResult(meta, indices[pos], scores[pos], query))
                    ELSE results,
                    query, threshold)

\* inserts r after every element whose score is at least r's
RECURSIVE InsertDesc(_, _)
InsertDesc(sorted, r) ==
    IF sorted = <<>> THEN <<r>>
    ELSE IF Head(sorted).similarity_score >= r.similarity_score
         THEN <<Head(sorted)>> \o InsertDesc(Tail(sorted), r)
         ELSE <<r>> \o sorted

\* line 99: results.sort(key=similarity_score, reverse=True), a stable sort
RECURSIVE SortDesc(_)
SortDesc(results) ==
    IF results = <<>> THEN <<>>
    ELSE InsertDesc(SortDesc(SubSeq(results, 1, Len(results) - 1)), results[Len(results)])

ErrorRecord(query, what) == [query |-> query, error |-> what]

SentinelRecord(query, best) ==
    [query |-> query, message |-> "Aucun resultat pertinent trouve", best_score |-> best]

\* the mutant of lines 101-108 whose log line reads no score
FinishNoLog(results, scores, query) ==
    LET sorted == SortDesc(results)
    IN IF sorted = <<>>
       THEN <<SentinelRecord(query, IF Len(scores) > 0 THEN scores[1] ELSE 0)>>
       ELSE sorted

\* the mutant of lines 101-108 that returns the empty list as it is
FinishNoSentinel(results, scores, query) == SortDesc(results)

\* lines 98-118: the sort, then the sentinel when nothing passed.  The log
\* line of the empty case formats scores[0] before the return statement
\* tests len(scores): on an empty scores array it raises IndexError, and the
\* except clause returns the error record
FinishSearch(results, scores, query) ==
    LET sorted == SortDesc(results)
    IN IF sorted = <<>>
       THEN IF Len(scores) = 0
            THEN <<ErrorRecord(query, "IndexError")>>
            ELSE <<SentinelRecord(query, IF Len(scores) > 0 THEN scores[1] ELSE 0)>>
       ELSE sorted

\* lines 90-118 of search, once find_top_k_similar has returned top
SearchWith(meta, top, query, threshold) ==
    FinishSearch(FilterFrom(meta, top[1], top[2], 1, <<>>, query, threshold), top[2], query)

\* search(query, k, threshold) on the store (emb, meta): the lists it may return
search(emb, meta, query, k, threshold) ==
    {SearchWith(meta, top, query, threshold) :
        top \in find_top_k_similar(encode_query(query), emb, k)}

\* the mutant of search_by_embedding that ends as search does, with the
\* sentinel
SearchByEmbeddingSentinel(meta, top, threshold) ==
    SearchWith(meta, top, "Embedding query", threshold)

\* lines 197-204 of search_by_embedding, once find_top_k_similar has
\* returned top: the loop, and the list as the loop left it
SearchByEmbeddingWith(meta, top, threshold) ==
    FilterFrom(meta, top[1], top[2], 1, <<>>, "Embedding query", threshold)

\* search_by_embedding(query_embedding, k, threshold): the lists it may return
search_by_embedding(emb, meta, query_embedding, k, threshold) ==
    {SearchByEmbeddingWith(meta, top, threshold) :
        top \in find_top_k_similar(query_embedding, emb, k)}

\* the mutant of get_document_by_index without the test idx < 0: Python
\* reads index -1 as the last element
GetDocumentNoLowerBound(emb, meta, idx) ==
    IF idx >= Len(emb) \/ emb = <<>> THEN <<>>
    ELSE IF meta # <<>> /\ idx < Len(meta)
         THEN <<meta[IF idx < 0 THEN Len(meta) ELSE idx + 1]>>
    ELSE <<[index |-> idx,
            embedding_shape |-> <<Len(emb[IF idx < 0 THEN Len(emb) ELSE idx + 1])>>]>>

\* get_document_by_index(idx): <<>> for None, else <<the document>>
get_document_by_index(emb, meta, idx) ==
    IF idx < 0 \/ idx >= Len(emb) THEN <<>>
    ELSE IF meta # <<>> /\ idx < Len(meta) THEN <<meta[idx + 1]>>
    ELSE <<[index |-> idx, embedding_shape |-> <<Len(emb[idx + 1])>>]>>

-----------------------------------------------------------------------------
(* SemanticSearchEngine: one caller *)

\* what the embeddings and metadata files may hold when load_data reads them
\* again: the matrix, unless np.load raises on it (embFile "corrupt"), and
\* the list, unless the file is "missing" or json.load raises on it ("corrupt")
ReloadFiles ==
    {[embFile |-> "ok", emb |-> <<<<1, 0>>, <<1, 1>>>>, metaFile |-> "ok", meta |-> <<MetaA, MetaB>>],
     [embFile |-> "ok", emb |-> <<<<1, 1>>, <<0, 0>>, <<1, 0>>>>, metaFile |-> "ok", meta |-> <<MetaB>>],
     [embFile |-> "ok", emb |-> <<>>, metaFile |-> "ok", meta |-> <<>>],
     [embFile |-> "ok", emb |-> <<<<-1, 0>>>>, metaFile |-> "missing", meta |-> <<>>],
     [embFile |-> "ok", emb |-> <<<<1, 0>>>>, metaFile |-> "corrupt", meta |-> <<>>],
     [embFile |-> "corrupt", emb |-> <<>>, metaFile |-> "ok", meta |-> <<MetaA>>]}

\* the constructor has run load_data, and it did not raise
Init ==
    /\ embeddings \in StoreCorpora
    /\ metadata \in Metas
    /\ pc = "idle" /\ ret = NoCall
    /\ InitThreads
    /\ InitClusters
    /\ InitTools

\* load_data(): np.load, then json.load when the metadata file exists.  An
\* exception is logged and raised again, with what was assigned before it kept
LoadData ==
    /\ pc = "idle"
    /\ \E f \in ReloadFiles :
          IF f.embFile = "corrupt"
          THEN /\ UNCHANGED storeVars
               /\ ret' = [op |-> "load_data", raised |-> TRUE]
          ELSE /\ embeddings' = f.emb
               /\ IF f.metaFile = "corrupt"
                  THEN /\ UNCHANGED metadata
                       /\ ret' = [op |-> "load_data", raised |-> TRUE]
                  ELSE /\ metadata' = IF f.metaFile = "missing" THEN <<>> ELSE f.meta
                       /\ ret' = [op |-> "load_data", raised |-> FALSE]
    /\ pc' = "returned"
    /\ UNCHANGED <<threadVars, clusterVars, toolVars>>

\* the mutant of Search that sorts the embeddings in place
SearchSortingStore ==
    /\ pc = "idle"
    /\ \E query \in Queries, k \in 0..MaxK, threshold \in Thresholds :
          \E top \in find_top_k_similar(encode_query(query), embeddings, k) :
             /\ ret' = [op |-> "search", query |-> query, k |-> k, threshold |-> threshold,
                        top |-> top,
                        result |-> SearchWith(metadata, top, query, threshold)]
             /\ embeddings' = Take(embeddings, top[1])
    /\ pc' = "returned"
    /\ UNCHANGED <<metadata, threadVars, clusterVars, toolVars>>

\* search(query, k, threshold); top is what its call of find_top_k_similar
\* returned
Search ==
    /\ pc = "idle"
    /\ \E query \in Queries, k \in 0..MaxK, threshold \in Thresholds :
          \E top \in find_top_k_similar(encode_query(query), embeddings, k) :
             ret' = [op |-> "search", query |-> query, k |-> k, threshold |-> threshold,
                     top |-> top,
                     result |-> SearchWith(metadata, top, query, threshold)]
    /\ pc' = "returned"
    /\ UNCHANGED <<storeVars, threadVars, clusterVars, toolVars>>

\* search_by_embedding(query_embedding, k, threshold); top is what its call
\* of find_top_k_similar returned
SearchByEmbedding ==
    /\ pc = "idle"
    /\ \E q \in QueryVecs, k \in 0..MaxK, threshold \in Thresholds :
          \E top \in find_top_k_similar(q, embeddings, k) :
             ret' = [op |-> "search_by_embedding", query_embedding |-> q, k |-> k,
                     threshold |-> threshold, top |-> top,
                     result |-> SearchByEmbeddingWith(metadata, top, threshold)]
    /\ pc' = "returned"
    /\ UNCHANGED <<storeVars, threadVars, clusterVars, toolVars>>

GetDocumentByIndex ==
    /\ pc = "idle"
    /\ \E idx \in (-1)..MaxN :
          ret' = [op |-> "get_document_by_index", idx |-> idx,
                  result |-> get_document_by_index(embeddings, metadata, idx)]
    /\ pc' = "returned"
    /\ UNCHANGED <<storeVars, threadVars, clusterVars, toolVars>>

\* the scores _get_match_quality is called on: the tenths of -1..1, and the
\* scores next to each
QualityScores ==
    {s \in (-Scale)..Scale :
        \E j \in (-10)..10, d \in {-1, 0, 1} : s = (j * Scale) \div 10 + d}

\* _get_match_quality(score)
GetMatchQuality ==
    /\ pc = "idle"
    /\ \E score \in QualityScores :
          ret' = [op |-> "get_match_quality", score |-> score,
                  result |-> MatchQuality(score)]
    /\ pc' = "returned"
    /\ UNCHANGED <<storeVars, threadVars, clusterVars, toolVars>>

Next ==
    \/ LoadData \/ Search \/ SearchByEmbedding \/ GetDocumentByIndex
    \/ GetMatchQuality \/ Return

Spec == Init /\ [][Next]_vars

-----------------------------------------------------------------------------
(* SemanticSearchEngine: a search and a load_data in two threads.  The code *)
(* takes no lock; a thread switch may fall between any two reads or        *)
(* assignments of self.embeddings and self.metadata.                       *)

\* the files a concurrent reload reads are well-formed
GoodFiles == {f \in ReloadFiles : f.embFile = "ok" /\ f.metaFile # "corrupt"}

LoadedMeta(f) == IF f.metaFile = "missing" THEN <<>> ELSE f.meta

InitConc ==
    /\ \E f \in GoodFiles : embeddings = f.emb /\ metadata = LoadedMeta(f)
    /\ pc = "idle" /\ ret = NoCall
    /\ InitThreads
    /\ InitClusters
    /\ InitTools

searchVars == <<spc, sargs, ssnap, stop, spos, sresults>>
loadVars == <<lpc, lnew>>

\* load_data is called
LStart ==
    /\ lpc = "idle"
    /\ \E f \in GoodFiles : lnew' = f
    /\ lpc' = "emb"
    /\ UNCHANGED <<storeVars, callVars, clusterVars, searchVars, toolVars>>

\* line 39: self.embeddings = np.load(self.embeddings_file)
LEmb ==
    /\ lpc = "emb"
    /\ embeddings' = lnew.emb
    /\ lpc' = "meta"
    /\ UNCHANGED <<metadata, lnew, callVars, clusterVars, searchVars, toolVars>>

\* lines 43-49: self.metadata = json.load(f), or [] without the file
LMeta ==
    /\ lpc = "meta"
    /\ metadata' = LoadedMeta(lnew)
    /\ lpc' = "idle"
    /\ lnew' = NoFile
    /\ UNCHANGED <<embeddings, callVars, clusterVars, searchVars, toolVars>>

\* lines 83-88: the query is encoded and find_top_k_similar reads
\* self.embeddings; ssnap records the store the search starts with
SStart ==
    /\ spc = "idle"
    /\ \E query \in Queries, k \in 0..MaxK, threshold \in Thresholds :
          /\ sargs' = [query |-> query, k |-> k, threshold |-> threshold]
          /\ stop' \in find_top_k_similar(encode_query(query), embeddings, k)
    /\ ssnap' = [emb |-> embeddings, meta |-> metadata]
    /\ spos' = 1
    /\ sresults' = <<>>
    /\ spc' = "filter"
    /\ UNCHANGED <<storeVars, callVars, clusterVars, loadVars, toolVars>>

\* lines 92-93 and 133-142: the next entry of zip(indices, scores); one at
\* or above the threshold gets its result record, without metadata when
\* line 142's test of self.metadata fails
SFilter ==
    /\ spc = "filter"
    /\ spos <= Len(stop[1])
    /\ LET idx == stop[1][spos]
           score == stop[2][spos]
       IN IF ~Keep(score, sargs.threshold)
          THEN /\ spos' = spos + 1
               /\ UNCHANGED <<spc, sresults>>
          ELSE IF metadata # <<>> /\ idx < Len(metadata)
               THEN /\ spc' = "meta"
                    /\ UNCHANGED <<spos, sresults>>
               ELSE /\ sresults' = Append(sresults, CreateResult(<<>>, idx, score, sargs.query))
                    /\ spos' = spos + 1
                    /\ UNCHANGED spc
    /\ UNCHANGED <<storeVars, callVars, clusterVars, loadVars, sargs, ssnap, stop, toolVars>>

\* lines 143-152: meta = self.metadata[idx], read again from the attribute;
\* an IndexError makes _create_result return None, and the entry is dropped
SMeta ==
    /\ spc = "meta"
    /\ LET idx == stop[1][spos]
           score == stop[2][spos]
       IN sresults' = IF idx < Len(metadata)
                      THEN Append(sresults, CreateResult(metadata, idx, score, sargs.query))
                      ELSE sresults
    /\ spos' = spos + 1
    /\ spc' = "filter"
    /\ UNCHANGED <<storeVars, callVars, clusterVars, loadVars, sargs, ssnap, stop, toolVars>>

\* lines 98-118, after the loop
SFinish ==
    /\ spc = "filter"
    /\ spos > Len(stop[1])
    /\ sresults' = FinishSearch(sresults, stop[2], sargs.query)
    /\ spc' = "done"
    /\ UNCHANGED <<storeVars, callVars, clusterVars, loadVars, sargs, ssnap, stop, spos, toolVars>>

\* the caller takes the list
SReturn ==
    /\ spc = "done"
    /\ spc' = "idle"
    /\ sargs' = NoArgs /\ ssnap' = NoSnap /\ stop' = NoTop /\ spos' = 0 /\ sresults' = <<>>
    /\ UNCHANGED <<storeVars, callVars, clusterVars, loadVars, toolVars>>

NextConc == LStart \/ LEmb \/ LMeta \/ SStart \/ SFilter \/ SMeta \/ SFinish \/ SReturn

SpecConc == InitConc /\ [][NextConc]_vars

-----------------------------------------------------------------------------
(* TopicClustering: scikit-learn's KMeans and silhouette_score.  Both are  *)
(* library code.  KMeans(random_state=42) builds its own generator from    *)
(* the seed at every fit, so fit_predict is one function of the rows, in   *)
(* their order, and of n_clusters.  The function below stands for it:      *)
(* seeded choice of the first centre, each next centre the row farthest    *)
(* from the centres chosen, then Lloyd's iterations to a fixed point.      *)

\* random_state=42
KMeansSeed == 42

\* max_iter=300
MaxIter == 300

\* the squared Euclidean distance of two rows
SqDist(p, q) == SumSeq([d \in 1..Len(p) |-> (p[d] - q[d]) * (p[d] - q[d])])

\* the squared distance of every row of X to the nearest of the rows chosen
NearestChosen(X, chosen) ==
    [i \in 1..Len(X) |->
        LET ds == {SqDist(X[i], X[chosen[c]]) : c \in 1..Len(chosen)}
        IN CHOOSE m \in ds : \A d \in ds : m <= d]

\* the centres the fit starts from, as row numbers: the next one is the
\* first row among those farthest from the centres chosen
RECURSIVE InitCenters(_, _, _)
InitCenters(X, chosen, n_clusters) ==
    IF Len(chosen) >= n_clusters THEN chosen
    ELSE LET far == NearestChosen(X, chosen)
             next == CHOOSE i \in 1..Len(X) :
                        /\ \A j \in 1..Len(X) : far[j] <= far[i]
                        /\ \A j \in 1..(i - 1) : far[j] < far[i]
         IN InitCenters(X, Append(chosen, next), n_clusters)

\* a centre is kept as the sum and the count of its rows; the squared
\* distance of row p to it, times the square of the count
CenterDist(p, center) ==
    SumSeq([d \in 1..Len(p) |->
               (center.cnt * p[d] - center.sum[d]) * (center.cnt * p[d] - center.sum[d])])

\* the label of row p: the first of the centres nearest to it
Nearest(p, centers) ==
    LET Closer(a, b) ==   \* centre a is strictly nearer to p than centre b
            CenterDist(p, centers[a]) * centers[b].cnt * centers[b].cnt
                < CenterDist(p, centers[b]) * centers[a].cnt * centers[a].cnt
    IN (CHOOSE a \in 1..Len(centers) :
           /\ \A b \in 1..Len(centers) : ~Closer(b, a)
           /\ \A b \in 1..(a - 1) : Closer(a, b)) - 1

AssignLabels(X, centers) == [i \in 1..Len(X) |-> Nearest(X[i], centers)]

\* the means of the clusters; a cluster without rows keeps its centre
UpdateCenters(X, labels, centers) ==
    [c \in 1..Len(centers) |->
        LET members == {i \in 1..Len(X) : labels[i] = c - 1}
        IN IF members = {} THEN centers[c]
           ELSE [sum |-> [d \in 1..Len(X[1]) |->
                            SumSeq([i \in 1..Len(X) |-> IF i \in members THEN X[i][d] ELSE 0])],
                 cnt |-> Cardinality(members)]]

\* the one element of a set of one element: The({F(x) : x \in {e}}) is
\* F(e), with e evaluated once
The(S) == CHOOSE x \in S : TRUE

\* one iteration after another, until no centre moves
RECURSIVE Lloyd(_, _, _)
Lloyd(X, centers, iter) ==
    The(UNION {{IF moved = centers \/ iter >= MaxIter THEN labels
                ELSE Lloyd(X, moved, iter + 1) :
                   moved \in {UpdateCenters(X, labels, centers)}} :
               labels \in {AssignLabels(X, centers)}})

\* KMeans(n_clusters, random_state=42, n_init=10, max_iter=300).fit_predict(X):
\* it raises ValueError on fewer rows than clusters, and else gives every
\* row a label in 0..n_clusters-1
KMeansFitPredict(X, n_clusters) ==
    IF n_clusters < 1 \/ Len(X) < n_clusters \/ Len(X) = 0
    THEN [raised |-> TRUE, labels |-> <<>>]
    ELSE LET first == (KMeansSeed % Len(X)) + 1
         IN The({[raised |-> FALSE,
                  labels |-> Lloyd(X, [c \in 1..n_clusters |->
                                         [sum |-> X[chosen[c]], cnt |-> 1]], 1)] :
                    chosen \in {InitCenters(X, <<first>>, n_clusters)}})

\* np.unique(labels)
Unique(labels) == {labels[i] : i \in 1..Len(labels)}

\* the Euclidean distance of two rows, in fixed point
Dist(p, q) == FSqrt(SqDist(p, q))

\* silhouette_score(X, labels): the mean over the rows of (b - a) / max(a, b),
\* a the mean distance to the other rows of the row's cluster and b the
\* least mean distance to the rows of another cluster; 0 for a row alone in
\* its cluster.  It raises ValueError unless 2 <= number of labels <= n - 1
silhouette_score(X, labels) ==
    LET n == Len(X)
        MeanDist(i, members) ==
            FDiv(SumSeq([j \in 1..n |-> IF j \in members THEN Dist(X[i], X[j]) ELSE 0]),
                 Cardinality(members))
        Sample(i) ==
            LET own == {j \in 1..n : labels[j] = labels[i]}
                others == {MeanDist(i, {j \in 1..n : labels[j] = c}) :
                              c \in Unique(labels) \ {labels[i]}}
            IN IF Cardinality(own) = 1 THEN 0
               ELSE The(UNION {{IF a = 0 /\ b = 0 THEN 0
                                ELSE FDiv((b - a) * Scale, IF a > b THEN a ELSE b) :
                                   b \in {CHOOSE m \in others : \A o \in others : m <= o}} :
                               a \in {MeanDist(i, own \ {i})}})
    IN IF Cardinality(Unique(labels)) < 2 \/ Cardinality(Unique(labels)) > n - 1
       THEN [raised |-> TRUE, score |-> 0]
       ELSE [raised |-> FALSE, score |-> FDiv(SumSeq([i \in 1..n |-> Sample(i)]), n)]

-----------------------------------------------------------------------------
(* TopicClustering *)

\* line 105: use_pca = self.embeddings.shape[1] > 50
PcaThreshold == 50

\* n_components=50
PcaComponents == 50

\* PCA(n_components=50, random_state=42).fit_transform(emb), library code:
\* a seeded linear reduction of every row to 50 coordinates.  The first 50
\* coordinates stand for it; the rows of this model have 2
PcaFitTransform(emb) == [i \in 1..Len(emb) |-> Prefix(emb[i], PcaComponents)]

NotClustered == [raised |-> TRUE, assigned |-> FALSE, labels |-> <<>>]

\* the mutant of perform_clustering that keeps the labels of the fitted model
\* when n_clusters is the same as at the last fit
PerformClusteringCached(emb, n_clusters) ==
    IF kmeans_model # <<>> /\ kmeans_model[1].n_clusters = n_clusters
    THEN [raised |-> FALSE, assigned |-> TRUE, labels |-> cluster_labels[1]]
    ELSE LET fit == KMeansFitPredict(emb, n_clusters)
         IN IF fit.raised THEN NotClustered
            ELSE [raised |-> Cardinality(Unique(fit.labels)) > 1
                                /\ silhouette_score(emb, fit.labels).raised,
                  assigned |-> TRUE, labels |-> fit.labels]

\* perform_clustering(n_clusters) on the rows emb: whether it raised, whether
\* it reached the assignments of lines 124-125, and the labels.  shape[1] of
\* an empty matrix raises IndexError, fit_predict raises on fewer rows than
\* clusters, and silhouette_score, called when the labels are not all one,
\* raises when every row has a label of its own
perform_clustering(emb, n_clusters) ==
    IF emb = <<>> THEN NotClustered
    ELSE LET use_pca == Len(emb[1]) > PcaThreshold
             embeddings_to_cluster == IF use_pca THEN PcaFitTransform(emb) ELSE emb
         IN The({IF fit.raised THEN NotClustered
                 ELSE [raised |-> Cardinality(Unique(fit.labels)) > 1
                                     /\ silhouette_score(embeddings_to_cluster,
                                                         fit.labels).raised,
                       assigned |-> TRUE, labels |-> fit.labels] :
                    fit \in {KMeansFitPredict(embeddings_to_cluster, n_clusters)}})

\* np.where(cluster_labels == cluster_id)[0], from position pos on
RECURSIVE Where(_, _, _)
Where(labels, cluster_id, pos) ==
    IF pos > Len(labels) THEN <<>>
    ELSE IF labels[pos] = cluster_id
         THEN <<pos - 1>> \o Where(labels, cluster_id, pos + 1)
         ELSE Where(labels, cluster_id, pos + 1)

\* line 166: cluster_indices[:100], the 100 scaled down
ExamineCap == 2

\* line 215: titles[:5], the 5 scaled down
SampleTitles == 1

\* line 184: most_common(5), the 5 scaled down
TopCategories == 2

\* line 203: most_common(10), the 10 scaled down
TopKeywords == 3

\* metadata records with categories and titles of several words; the
\* categories of MetaE are a JSON list, written as its text
MetaC == [title |-> "Deep Learning for Graphs", categories |-> "cs.LG cs.AI"]
MetaD == [title |-> "Graphs: a deep study of deep graphs",
          categories |-> "cs.AI stat.ML cs.AI"]
MetaE == [title |-> "Vision, vision and vision",
          categories |-> "[cs.CV, cs.CV, cs.CV, cs.CV]"]

\* lines 171-175: what one categories value adds to the list: the pieces of
\* str.split() for a string, the items for a list
CategoryItems(categories) ==
    CASE categories = "cs.LG cs.AI" -> <<"cs.LG", "cs.AI">>
      [] categories = "cs.AI stat.ML cs.AI" -> <<"cs.AI", "stat.ML", "cs.AI">>
      [] categories = "[cs.CV, cs.CV, cs.CV, cs.CV]" -> <<"cs.CV", "cs.CV", "cs.CV", "cs.CV">>
      [] OTHER -> <<categories>>

\* line 193: re.findall(r'\b[a-zA-Z]{3,}\b', title.lower()); the titles
\* "tA" and "tB" have no run of three letters
TitleWords(title) ==
    CASE title = "Deep Learning for Graphs" -> <<"deep", "learning", "for", "graphs">>
      [] title = "Graphs: a deep study of deep graphs"
            -> <<"graphs", "deep", "study", "deep", "graphs">>
      [] title = "Vision, vision and vision" -> <<"vision", "vision", "and", "vision">>
      [] OTHER -> <<>>

\* line 197
common_words == {"the", "and", "for", "with", "using", "based", "from", "this", "that"}

\* the concatenation of the sequences of a sequence
RECURSIVE Flatten(_)
Flatten(seqs) == IF seqs = <<>> THEN <<>> ELSE Head(seqs) \o Flatten(Tail(seqs))

\* lines 166-175: the categories of the examined members that have a
\* metadata record with categories
RECURSIVE CategoriesOf(_, _)
CategoriesOf(meta, indices) ==
    IF indices = <<>> THEN <<>>
    ELSE LET idx == Head(indices)
         IN (IF idx < Len(meta) /\ "categories" \in DOMAIN meta[idx + 1]
             THEN CategoryItems(meta[idx + 1].categories) ELSE <<>>)
            \o CategoriesOf(meta, Tail(indices))

\* the mutant of most_common that returns every element
MostCommonAll(elements, n) ==
    LET firsts == {i \in 1..Len(elements) : \A j \in 1..(i - 1) : elements[j] # elements[i]}
        Count(i) == Cardinality({j \in 1..Len(elements) : elements[j] = elements[i]})
        Rank(i) == 1 + Cardinality({f \in firsts : Count(f) > Count(i)
                                                    \/ (Count(f) = Count(i) /\ f < i)})
    IN [r \in 1..Cardinality(firsts) |->
           LET i == CHOOSE f \in firsts : Rank(f) = r
           IN <<elements[i], Count(i)>>]

\* Counter(elements).most_common(n): the distinct elements with their
\* counts as pairs, the higher count first and, among equal counts, the
\* element met first; the first n of them
MostCommon(elements, n) ==
    LET firsts == {i \in 1..Len(elements) : \A j \in 1..(i - 1) : elements[j] # elements[i]}
        Count(i) == Cardinality({j \in 1..Len(elements) : elements[j] = elements[i]})
        Rank(i) == 1 + Cardinality({f \in firsts : Count(f) > Count(i)
                                                    \/ (Count(f) = Count(i) /\ f < i)})
    IN Prefix([r \in 1..Cardinality(firsts) |->
                  LET i == CHOOSE f \in firsts : Rank(f) = r
                  IN <<elements[i], Count(i)>>], n)

\* lines 166-179: the titles of the examined members that have a metadata
\* record with a title
RECURSIVE TitlesOf(_, _)
TitlesOf(meta, indices) ==
    IF indices = <<>> THEN <<>>
    ELSE LET idx == Head(indices)
         IN (IF idx < Len(meta) /\ "title" \in DOMAIN meta[idx + 1]
             THEN <<meta[idx + 1].title>> ELSE <<>>)
            \o TitlesOf(meta, Tail(indices))

\* lines 162-216: cluster_stats, from the categories and the titles of the
\* examined members
ClusterStats(labels, meta, cluster_id) ==
    LET cluster_indices == Where(labels, cluster_id, 1)
        categories == CategoriesOf(meta, Prefix(cluster_indices, ExamineCap))
        titles == TitlesOf(meta, Prefix(cluster_indices, ExamineCap))
        all_words == Flatten([t \in 1..Len(titles) |-> TitleWords(titles[t])])
        filtered_words == SelectSeq(all_words, LAMBDA w : w \notin common_words)
    IN [cluster_id |-> cluster_id,
        size |-> Len(cluster_indices),
        percentage |-> FDiv(Len(cluster_indices) * 100 * Scale, Len(labels)),
        top_categories |->
            LET top_categories == MostCommon(categories, TopCategories)
            IN [c \in 1..Len(top_categories) |->
                   [category |-> top_categories[c][1], count |-> top_categories[c][2]]],
        top_keywords |->
            LET top_keywords == MostCommon(filtered_words, TopKeywords)
            IN [w \in 1..Len(top_keywords) |->
                   [keyword |-> top_keywords[w][1], count |-> top_keywords[w][2]]],
        sample_titles |-> Prefix(titles, SampleTitles)]

\* the mutant of the test of line 159 that skips clusters of one member too
IsSmallCluster(cluster_indices) == Len(cluster_indices) <= 1

\* line 159: if len(cluster_indices) == 0: continue
IsEmptyCluster(cluster_indices) == Len(cluster_indices) = 0

\* lines 155-219: the loop over range(n_clusters), from cluster_id on
RECURSIVE AnalysisFrom(_, _, _, _, _)
AnalysisFrom(labels, meta, cluster_id, n_clusters, clusters_analysis) ==
    IF cluster_id >= n_clusters THEN clusters_analysis
    ELSE AnalysisFrom(labels, meta, cluster_id + 1, n_clusters,
                      IF IsEmptyCluster(Where(labels, cluster_id, 1))
                      THEN clusters_analysis
                      ELSE Append(clusters_analysis, ClusterStats(labels, meta, cluster_id)))

\* inserts p after every profile at least as large
RECURSIVE InsertBySize(_, _)
InsertBySize(sorted, p) ==
    IF sorted = <<>> THEN <<p>>
    ELSE IF Head(sorted).size >= p.size
         THEN <<Head(sorted)>> \o InsertBySize(Tail(sorted), p)
         ELSE <<p>> \o sorted

\* the mutant of the sort of line 221 that leaves the list in cluster_id order
KeepOrder(clusters_analysis) == clusters_analysis

\* line 221: clusters_analysis.sort(key=size, reverse=True), a stable sort
RECURSIVE SortBySize(_)
SortBySize(clusters_analysis) ==
    IF clusters_analysis = <<>> THEN <<>>
    ELSE InsertBySize(SortBySize(SubSeq(clusters_analysis, 1, Len(clusters_analysis) - 1)),
                      clusters_analysis[Len(clusters_analysis)])

\* analyze_clusters(n_clusters): perform_clustering, and the profiles when
\* it did not raise
analyze_clusters(emb, meta, n_clusters) ==
    The({[raised |-> done.raised, assigned |-> done.assigned, labels |-> done.labels,
          profiles |-> IF done.raised THEN <<>>
                       ELSE SortBySize(AnalysisFrom(done.labels, meta, 0, n_clusters, <<>>))] :
            done \in {perform_clustering(emb, n_clusters)}})

\* the sample cap of line 63, min(1000, len(self.embeddings)), brought down
\* to the corpora of this model
SampleCap == 4

\* lines 69-88: one trial of the sweep, <<score>> or <<>> when the trial was
\* skipped (one label only) or raised
Trial(sample_embeddings, n_clusters) ==
    The({IF fit.raised \/ Cardinality(Unique(fit.labels)) <= 1 THEN <<>>
         ELSE LET silhouette_avg == silhouette_score(sample_embeddings, fit.labels)
              IN IF silhouette_avg.raised THEN <<>> ELSE <<silhouette_avg.score>> :
            fit \in {KMeansFitPredict(sample_embeddings, n_clusters)}})

\* find_optimal_clusters(max_clusters) when np.random.choice returned
\* indices: the scores dictionary, scores[n_clusters - 1] holding the entry
\* of n_clusters
find_optimal_clusters(emb, max_clusters, indices) ==
    The({[j \in 1..(max_clusters - 1) |-> Trial(sample_embeddings, j + 1)] :
            sample_embeddings \in {Take(emb, indices)}})

\* np.random.choice(n, sample_size, replace=False) on NumPy's global
\* generator, which no line of the module seeds: any sample_size distinct
\* indices in any order
RandomChoice(n, sample_size) == {Prefix(p, sample_size) : p \in Perms(n)}

\* corpora: three rows near one another and one far away, three equal rows,
\* two rows, and two rows near one another with one far away
CorpusB == <<<<5, 5>>, <<5, 6>>, <<0, 0>>, <<6, 5>>>>

CorpusC == <<<<1, 0>>, <<1, 0>>, <<1, 0>>>>

CorpusD == <<<<0, 0>>, <<1, 1>>>>

CorpusG == <<<<0, 0>>, <<0, 1>>, <<5, 5>>>>

\* the embeddings and metadata the constructor may have loaded
ClusterStores ==
    {[emb |-> CorpusB, meta |-> <<MetaC, MetaD, MetaA, MetaE>>],
     [emb |-> CorpusC, meta |-> <<>>],
     [emb |-> CorpusD, meta |-> <<MetaB, MetaA, MetaA>>]}

\* what the two files may hold when load_data reads them again
ClusterFiles ==
    {[embFile |-> "ok", emb |-> CorpusG, metaFile |-> "ok", meta |-> <<MetaB>>],
     [embFile |-> "ok", emb |-> <<>>, metaFile |-> "missing", meta |-> <<>>],
     [embFile |-> "corrupt", emb |-> <<>>, metaFile |-> "ok", meta |-> <<MetaA>>]}

\* the constructor has run load_data, and it did not raise
InitClu ==
    /\ \E store \in ClusterStores : embeddings = store.emb /\ metadata = store.meta
    /\ pc = "idle" /\ ret = NoCall
    /\ InitThreads
    /\ InitClusters
    /\ InitTools

\* load_data(): np.load, then json.load when the metadata file exists; it
\* assigns self.embeddings and self.metadata and nothing else
ClusterLoadData ==
    /\ pc = "idle"
    /\ \E f \in ClusterFiles :
          IF f.embFile = "corrupt"
          THEN /\ UNCHANGED storeVars
               /\ ret' = [op |-> "load_data", raised |-> TRUE]
          ELSE /\ embeddings' = f.emb
               /\ metadata' = IF f.metaFile = "missing" THEN <<>> ELSE f.meta
               /\ ret' = [op |-> "load_data", raised |-> FALSE]
    /\ pc' = "returned"
    /\ UNCHANGED <<threadVars, clusterVars, toolVars>>

\* perform_clustering(n_clusters)
PerformClustering ==
    /\ pc = "idle"
    /\ \E n_clusters \in 1..MaxK :
          \E done \in {perform_clustering(embeddings, n_clusters)} :
             /\ cluster_labels' = IF done.assigned THEN <<done.labels>> ELSE cluster_labels
             /\ kmeans_model' =
                   IF done.assigned
                   THEN <<[n_clusters |-> n_clusters, labels_ |-> done.labels]>>
                   ELSE kmeans_model
             /\ ret' = [op |-> "perform_clustering", n_clusters |-> n_clusters,
                        raised |-> done.raised,
                        labels |-> IF done.raised THEN <<>> ELSE done.labels]
    /\ pc' = "returned"
    /\ UNCHANGED <<storeVars, threadVars, analysis_file, labels_file, toolVars>>

\* analyze_clusters(n_clusters)
AnalyzeClusters ==
    /\ pc = "idle"
    /\ \E n_clusters \in 1..MaxK :
          \E done \in {analyze_clusters(embeddings, metadata, n_clusters)} :
             /\ cluster_labels' = IF done.assigned THEN <<done.labels>> ELSE cluster_labels
             /\ kmeans_model' =
                   IF done.assigned
                   THEN <<[n_clusters |-> n_clusters, labels_ |-> done.labels]>>
                   ELSE kmeans_model
             /\ ret' = [op |-> "analyze_clusters", n_clusters |-> n_clusters,
                        raised |-> done.raised, profiles |-> done.profiles]
    /\ pc' = "returned"
    /\ UNCHANGED <<storeVars, threadVars, analysis_file, labels_file, toolVars>>

\* the mutant of save_clustering_results that saves self.cluster_labels
\* before it calls analyze_clusters
SaveLabelsFirst ==
    /\ pc = "idle"
    /\ \E n_clusters \in 1..MaxK :
          \E done \in {analyze_clusters(embeddings, metadata, n_clusters)} :
             LET failed == cluster_labels = <<>> \/ done.raised IN
             /\ cluster_labels' = IF done.assigned /\ cluster_labels # <<>>
                                  THEN <<done.labels>> ELSE cluster_labels
             /\ kmeans_model' =
                   IF done.assigned /\ cluster_labels # <<>>
                   THEN <<[n_clusters |-> n_clusters, labels_ |-> done.labels]>>
                   ELSE kmeans_model
             /\ labels_file' = cluster_labels
             /\ analysis_file' = IF failed THEN analysis_file ELSE <<done.profiles>>
             /\ ret' = [op |-> "save_clustering_results", n_clusters |-> n_clusters,
                        raised |-> failed,
                        profiles |-> IF failed THEN <<>> ELSE done.profiles]
    /\ pc' = "returned"
    /\ UNCHANGED <<storeVars, threadVars, toolVars>>

\* save_clustering_results(output_file, n_clusters): analyze_clusters, then
\* json.dump of the profiles and np.save of self.cluster_labels
SaveClusteringResults ==
    /\ pc = "idle"
    /\ \E n_clusters \in 1..MaxK :
          \E done \in {analyze_clusters(embeddings, metadata, n_clusters)} :
             /\ cluster_labels' = IF done.assigned THEN <<done.labels>> ELSE cluster_labels
             /\ kmeans_model' =
                   IF done.assigned
                   THEN <<[n_clusters |-> n_clusters, labels_ |-> done.labels]>>
                   ELSE kmeans_model
             /\ analysis_file' = IF done.raised THEN analysis_file ELSE <<done.profiles>>
             /\ labels_file' = IF done.raised THEN labels_file ELSE cluster_labels'
             /\ ret' = [op |-> "save_clustering_results", n_clusters |-> n_clusters,
                        raised |-> done.raised, profiles |-> done.profiles]
    /\ pc' = "returned"
    /\ UNCHANGED <<storeVars, threadVars, toolVars>>

\* find_optimal_clusters(max_clusters), called by an idle caller or again by
\* the caller it has just returned to; indices is what np.random.choice gave
FindOptimalClusters ==
    /\ pc = "idle" \/ (pc = "returned" /\ ret.op = "find_optimal_clusters")
    /\ \E max_clusters \in {MaxK} :
          \E indices \in RandomChoice(Len(embeddings), PyMin(SampleCap, Len(embeddings))) :
             ret' = [op |-> "find_optimal_clusters", max_clusters |-> max_clusters,
                     indices |-> indices,
                     scores |-> find_optimal_clusters(embeddings, max_clusters, indices)]
    /\ pc' = "returned"
    /\ UNCHANGED <<storeVars, threadVars, clusterVars, toolVars>>

NextClu ==
    \/ ClusterLoadData \/ PerformClustering \/ AnalyzeClusters
    \/ SaveClusteringResults \/ FindOptimalClusters \/ Return

SpecClu == InitClu /\ [][NextClu]_vars

(***************************************************************************)
(* The sweep on a corpus larger than the sample                            *)
(***************************************************************************)

\* five rows, one more than the sample holds
CorpusE == <<<<5, 5>>, <<5, 6>>, <<0, 0>>, <<6, 5>>, <<0, 2>>>>

\* the constructor has run load_data on the five rows
InitSweep ==
    /\ embeddings = CorpusE /\ metadata = <<MetaA, MetaB>>
    /\ pc = "idle" /\ ret = NoCall
    /\ InitThreads
    /\ InitClusters
    /\ InitTools

NextSweep == FindOptimalClusters \/ ClusterLoadData \/ Return

SpecSweep == InitSweep /\ [][NextSweep]_vars

(***************************************************************************)
(* cluster_embeddings, the module's main function                          *)
(***************************************************************************)

\* line 329: find_optimal_clusters(max_clusters=15)
SweepMax == 15

\* the mutant of the choice of best_n that takes the first key of the
\* scores dictionary
BestNFirstScored(optimal_scores, n_clusters) ==
    LET keys == {j \in 1..Len(optimal_scores) : optimal_scores[j] # <<>>}
    IN IF keys = {} THEN n_clusters
       ELSE 1 + (CHOOSE j \in keys : \A i \in keys : j <= i)

\* lines 331-336: max(optimal_scores, key=optimal_scores.get), the first
\* key in insertion order (increasing n_clusters) among those of the highest
\* score, or n_clusters when the dictionary is empty
BestN(optimal_scores, n_clusters) ==
    LET keys == {j \in 1..Len(optimal_scores) : optimal_scores[j] # <<>>}
    IN IF keys = {} THEN n_clusters
       ELSE 1 + (CHOOSE j \in keys :
                    /\ \A i \in keys : optimal_scores[i][1] <= optimal_scores[j][1]
                    /\ \A i \in keys : i < j => optimal_scores[i][1] < optimal_scores[j][1])

\* cluster_embeddings(embeddings_file, output_file, n_clusters) on the files
\* f when np.random.choice returned indices: the constructor, the sweep, the
\* choice of best_n and save_clustering_results(output_file, best_n).
\* visualize_clusters(best_n, viz_path) then repeats perform_clustering(best_n)
\* on the same object and draws the figure.
cluster_embeddings(f, n_clusters, indices) ==
    IF f.embFile = "corrupt"
    THEN [constructed |-> FALSE, raised |-> TRUE, scores |-> <<>>, best_n |-> 0,
          labels |-> <<>>, profiles |-> <<>>]
    ELSE LET meta == IF f.metaFile = "missing" THEN <<>> ELSE f.meta
         IN The(UNION {{[constructed |-> TRUE, raised |-> done.raised,
                         scores |-> optimal_scores,
                         best_n |-> BestN(optimal_scores, n_clusters),
                         labels |-> done.labels, profiles |-> done.profiles] :
                           done \in {analyze_clusters(f.emb, meta,
                                                      BestN(optimal_scores, n_clusters))}} :
                       optimal_scores \in {find_optimal_clusters(f.emb, SweepMax, indices)}})

\* a corpus whose rows fall into three groups more clearly than into two
CorpusH == <<<<0, 0>>, <<0, 1>>, <<5, 5>>, <<9, 0>>>>

\* what the embeddings file and its metadata file may hold when
\* cluster_embeddings is called
MainFiles ==
    ClusterFiles \cup
    {[embFile |-> "ok", emb |-> CorpusB, metaFile |-> "ok", meta |-> <<MetaA, MetaB>>],
     [embFile |-> "ok", emb |-> CorpusH, metaFile |-> "missing", meta |-> <<>>],
     [embFile |-> "ok", emb |-> CorpusC, metaFile |-> "ok", meta |-> <<MetaB>>],
     [embFile |-> "ok", emb |-> CorpusD, metaFile |-> "ok", meta |-> <<MetaA>>]}

\* cluster_embeddings(embeddings_file, output_file, n_clusters): it works on
\* a TopicClustering object of its own, so the object of the other actions
\* is left as it is, and it writes the two result files
ClusterEmbeddings ==
    /\ pc = "idle"
    /\ \E f \in MainFiles, n_clusters \in 1..MaxK :
          \E indices \in RandomChoice(Len(f.emb), PyMin(SampleCap, Len(f.emb))) :
             \E done \in {cluster_embeddings(f, n_clusters, indices)} :
                /\ analysis_file' = IF done.raised THEN analysis_file
                                    ELSE <<done.profiles>>
                /\ labels_file' = IF done.raised THEN labels_file ELSE <<done.labels>>
                /\ ret' = [op |-> "cluster_embeddings", file |-> f,
                           n_clusters |-> n_clusters, indices |-> indices,
                           constructed |-> done.constructed, raised |-> done.raised,
                           scores |-> done.scores, best_n |-> done.best_n,
                           labels |-> done.labels, profiles |-> done.profiles]
    /\ pc' = "returned"
    /\ UNCHANGED <<storeVars, threadVars, cluster_labels, kmeans_model, toolVars>>

NextMain == ClusterEmbeddings \/ Return

SpecMain == InitClu /\ [][NextMain]_vars

(***************************************************************************)
(* EmbeddingGenerator: the pipeline that writes the store's two files      *)
(***************************************************************************)

\* the most lines of an input file
MaxLines == 3

\* the lines of the input file: articles as json.loads gives them, and a
\* line that is no JSON
ArxivLines ==
    {[id |-> "1", title |-> "T1", abstract |-> "A1", authors |-> "au1",
      categories |-> "c1", update_date |-> "d1"],
     [id |-> "2", title |-> " T2 ", abstract |-> "A-long"],
     [id |-> "3", title |-> "T3"],
     [id |-> "4", title |-> "", abstract |-> "A4"],
     [bad_json |-> TRUE]}

\* load_arxiv_data(input_file, limit) on a file of these lines; limit 0 is
\* no limit, as None is
load_arxiv_data(lines, limit) ==
    LET read == IF limit # 0 THEN Prefix(lines, limit) ELSE lines
    IN SelectSeq(read, LAMBDA line : "bad_json" \notin DOMAIN line)

\* preprocess_text(title, abstract): the two stripped strings that
\* f"{title}. {abstract}" joins, and whether the 500 characters are exceeded
\* and the text is cut; of the strings of the model " T2 " has spaces to
\* strip and "A-long" is longer than 500 characters
preprocess_text(title, abstract) ==
    LET Strip(s) == IF s = " T2 " THEN "T2" ELSE s
    IN [title |-> Strip(title), abstract |-> Strip(abstract),
        cut |-> abstract = "A-long"]

\* encode_batch(texts, batch_size) from position i on: the rows of one batch
\* after the other; the row of a text is written [encoded |-> text]
RECURSIVE encode_batch(_, _, _)
encode_batch(texts, batch_size, i) ==
    IF i >= Len(texts) THEN <<>>
    ELSE LET batch == SubSeq(texts, i + 1, PyMin(i + batch_size, Len(texts)))
         IN [b \in 1..Len(batch) |-> [encoded |-> batch[b]]]
            \o encode_batch(texts, batch_size, i + batch_size)

\* generate_embeddings(articles, batch_size): pair is FALSE when the bare
\* np.array([]) of line 113 is returned, and TRUE when the pair
\* (embeddings_array, valid_indices) of line 120 is
generate_embeddings(articles, batch_size) ==
    LET valid_indices ==
            SelectSeq([idx \in 1..Len(articles) |-> idx - 1],
                      LAMBDA idx : /\ MetaGet(articles[idx + 1], "title", "") # ""
                                   /\ MetaGet(articles[idx + 1], "abstract", "") # "")
        texts == [t \in 1..Len(valid_indices) |->
                     preprocess_text(articles[valid_indices[t] + 1].title,
                                     articles[valid_indices[t] + 1].abstract)]
    IN IF texts = <<>>
       THEN [pair |-> FALSE, embeddings |-> <<>>, valid_indices |-> <<>>]
       ELSE [pair |-> TRUE, embeddings |-> encode_batch(texts, batch_size, 0),
             valid_indices |-> valid_indices]

\* the mutant of save_metadata that takes the first articles instead of the
\* valid ones
SaveMetadataFirstArticles(articles, valid_indices) ==
    [i \in 1..Len(valid_indices) |->
        LET article == articles[i]
        IN [id |-> MetaGet(article, "id", ""),
            title |-> MetaGet(article, "title", ""),
            authors |-> MetaGet(article, "authors", ""),
            categories |-> MetaGet(article, "categories", ""),
            date |-> MetaGet(article, "update_date", "")]]

\* save_metadata(articles, valid_indices, output_file): the list it dumps
save_metadata(articles, valid_indices) ==
    [i \in 1..Len(valid_indices) |->
        LET article == articles[valid_indices[i] + 1]
        IN [id |-> MetaGet(article, "id", ""),
            title |-> MetaGet(article, "title", ""),
            authors |-> MetaGet(article, "authors", ""),
            categories |-> MetaGet(article, "categories", ""),
            date |-> MetaGet(article, "update_date", "")]]

\* generate_and_save(input_file, output_file, limit, batch_size)
GenerateAndSave ==
    /\ pc = "idle"
    /\ \E lines \in SeqsUpTo(ArxivLines, MaxLines), limit \in 0..2, batch_size \in 1..2 :
          LET articles == load_arxiv_data(lines, limit)
              generated == generate_embeddings(articles, batch_size)
              \* line 159 unpacks the result into two names: an empty array
              \* has no two values to give, and the assignment raises ValueError
              raised == articles # <<>> /\ ~generated.pair
              saved == articles # <<>> /\ generated.pair
          IN /\ output_file' = IF saved THEN <<generated.embeddings>> ELSE output_file
             /\ metadata_file' =
                   IF saved THEN <<save_metadata(articles, generated.valid_indices)>>
                   ELSE metadata_file
             /\ ret' = [op |-> "generate_and_save", lines |-> lines, limit |-> limit,
                        batch_size |-> batch_size, raised |-> raised, saved |-> saved]
    /\ pc' = "returned"
    /\ UNCHANGED <<storeVars, threadVars, clusterVars, historyVars, requestVars>>

SpecGen == InitSim /\ [][GenerateAndSave \/ Return]_vars

(***************************************************************************)
(* The search histories of the API module and of the metrics logger        *)
(***************************************************************************)

\* routes_simple.MAX_HISTORY = 100 and ServerMetricsLogger.max_history = 100,
\* scaled down
MAX_HISTORY == 3
max_history == 3

\* the most searches logged in a run
MaxSearches == 5

\* the results lists logged; no result has categories
LoggedResults ==
    {<<>>, <<[score |-> 50], [similarity_score |-> 70, title |-> "tA"]>>}

\* the mutant of the insertion that pops the first entry of a full list
InsertPoppingFirst(history, entry, limit) ==
    LET inserted == <<entry>> \o history
    IN IF Len(inserted) > limit THEN Tail(inserted) ELSE inserted

\* history.insert(0, entry); if len(history) > limit: history.pop()
InsertAndTrim(history, entry, limit) ==
    LET inserted == <<entry>> \o history
    IN IF Len(inserted) > limit THEN SubSeq(inserted, 1, Len(inserted) - 1) ELSE inserted

\* routes_simple.save_to_history(query, results, execution_time, search_type)
SaveToHistory ==
    /\ pc = "idle" /\ now < MaxSearches
    /\ \E results \in LoggedResults, search_type \in {"semantic", "keyword"} :
          LET with_score == SelectSeq(results, LAMBDA r : "similarity_score" \in DOMAIN r)
              scores == [s \in 1..Len(with_score) |-> with_score[s].similarity_score]
              entry == [timestamp |-> now, query |-> "q", search_type |-> search_type,
                        total_results |-> Len(results), top_scores |-> Prefix(scores, 5),
                        categories |-> <<>>]
          IN /\ search_history' = InsertAndTrim(search_history, entry, MAX_HISTORY)
             /\ ret' = [op |-> "save_to_history", entry |-> entry]
    /\ now' = now + 1
    /\ pc' = "returned"
    /\ UNCHANGED <<storeVars, threadVars, clusterVars, genVars, logger_history, requestVars>>

\* server_metrics_logger.save_to_history(query, results, execution_time,
\* search_type)
LoggerSaveToHistory ==
    /\ pc = "idle" /\ now < MaxSearches
    /\ \E results \in LoggedResults, search_type \in {"semantic", "keyword"} :
          LET first == Prefix(results, 5)
              entry == [timestamp |-> now, query |-> "q", search_type |-> search_type,
                        total_results |-> Len(results),
                        top_scores |->
                            [s \in 1..Len(first) |->
                                MetaGet(first[s], "similarity_score",
                                        MetaGet(first[s], "score", 0))],
                        categories |-> <<>>]
          IN /\ logger_history' = InsertAndTrim(logger_history, entry, max_history)
             /\ ret' = [op |-> "logger_save_to_history", entry |-> entry]
    /\ now' = now + 1
    /\ pc' = "returned"
    /\ UNCHANGED <<storeVars, threadVars, clusterVars, genVars, search_history, requestVars>>

SpecHistory == InitSim /\ [][SaveToHistory \/ LoggerSaveToHistory \/ Return]_vars

(***************************************************************************)
(* download_arxiv.safe_request, a function that calls itself to retry      *)
(***************************************************************************)

\* line 33
RETRIES == 5

\* what requests.get may do: answer with a status, or raise
Responses == {"200", "429", "500", "Timeout", "ConnectionError", "OtherError"}

\* the frame of attempt i is frames[i]: "body" while it runs its own lines,
\* "try" while it waits for the call it made in its try block (lines 67 and
\* 71), "handler" while it waits for the call it made in an except clause
\* (lines 76, 80 and 84)
SafeRequestCall ==
    /\ request_result \in {"none", "returned", "raised"}
    /\ frames' = <<"body">>
    /\ http_requests' = 0
    /\ request_result' = "running"
    /\ UNCHANGED <<storeVars, callVars, threadVars, clusterVars, genVars, historyVars>>

\* lines 49-84 in the newest frame, up to its return, its raise or its call
\* of safe_request(params, attempt + 1)
SafeRequestBody ==
    /\ request_result = "running"
    /\ LET attempt == Len(frames)
           callers == SubSeq(frames, 1, Len(frames) - 1)
       IN IF attempt > RETRIES
          THEN \* line 50: the exception leaves the frame
               /\ frames' = callers
               /\ request_result' = "raising"
               /\ UNCHANGED http_requests
          ELSE /\ http_requests' = http_requests + 1
               /\ \E response \in Responses :
                     IF response = "200"
                     THEN \* line 62; every caller returns what its call returned
                          /\ frames' = <<>>
                          /\ request_result' = "returned"
                     ELSE /\ frames' = callers
                                \o <<IF response \in {"429", "500"} THEN "try" ELSE "handler",
                                     "body">>
                          /\ UNCHANGED request_result
    /\ UNCHANGED <<storeVars, callVars, threadVars, clusterVars, genVars, historyVars>>

\* the exception of line 50 arrives in the frame that made the call: a call
\* made in the try block is inside the try statement, so the clause of line
\* 81 catches the exception and line 84 calls safe_request(params,
\* attempt + 1) once more; a call made in an except clause lets it pass
SafeRequestRaise ==
    /\ request_result = "raising"
    /\ IF frames = <<>>
       THEN /\ request_result' = "raised"
            /\ UNCHANGED frames
       ELSE LET callers == SubSeq(frames, 1, Len(frames) - 1)
            IN IF frames[Len(frames)] = "try"
               THEN /\ frames' = callers \o <<"handler", "body">>
                    /\ request_result' = "running"
               ELSE /\ frames' = callers
                    /\ UNCHANGED request_result
    /\ UNCHANGED <<storeVars, callVars, threadVars, clusterVars, genVars, historyVars,
                   http_requests>>

SpecRequest == InitSim /\ [][SafeRequestCall \/ SafeRequestBody \/ SafeRequestRaise]_vars

(***************************************************************************)
(* DataImporter: the bulk import with retries                              *)
(***************************************************************************)

\* line 342: max_retries=3
max_retries == 3

\* line 26: self.batch_size = 500, scaled down
batch_size == 2

\* the most documents given to import_documents
MaxDocs == 3

\* what one requests.post to _bulk may bring: a status with a body, which
\* for 200 is the bulk result (errors, and the failed among the items) or
\* no JSON at all, or an exception
BulkResponses ==
    {[status |-> 200, json |-> TRUE, errors |-> FALSE, failed |-> 0, items |-> 2],
     [status |-> 200, json |-> TRUE, errors |-> TRUE, failed |-> 0, items |-> 2],
     [status |-> 200, json |-> TRUE, errors |-> TRUE, failed |-> 1, items |-> 2],
     [status |-> 200, json |-> FALSE, errors |-> FALSE, failed |-> 0, items |-> 0],
     [status |-> 503, json |-> FALSE, errors |-> FALSE, failed |-> 0, items |-> 0],
     [status |-> 0, json |-> FALSE, errors |-> FALSE, failed |-> 0, items |-> 0]}

\* the mutant of send_batch_with_retry that tries again when at least half
\* of the items failed
SendBatchRetryingOnErrors(responses, attempt) ==
    LET Try[a \in 0..max_retries] ==
            IF a >= max_retries THEN [success |-> FALSE, attempts |-> a]
            ELSE LET response == responses[a + 1]
                 IN IF response.status = 200 /\ response.json
                       /\ (~response.errors \/ 2 * response.failed < response.items)
                    THEN [success |-> TRUE, attempts |-> a + 1]
                    ELSE Try[a + 1]
    IN Try[attempt]

\* send_batch_with_retry(ndjson_data) from the given attempt on, when the
\* server answers attempt a with responses[a + 1] (status 0: requests.post
\* raised): the value returned and the number of POSTs made.  A 200 whose
\* body is no JSON makes response.json() raise inside the try block, and the
\* loop goes on as after any exception.
RECURSIVE send_batch_with_retry(_, _)
send_batch_with_retry(responses, attempt) ==
    IF attempt >= max_retries THEN [success |-> FALSE, attempts |-> attempt]
    ELSE LET response == responses[attempt + 1]
         IN IF response.status = 200 /\ response.json
            THEN [success |-> IF ~response.errors THEN TRUE
                              ELSE 2 * response.failed < response.items,
                  attempts |-> attempt + 1]
            ELSE send_batch_with_retry(responses, attempt + 1)

\* import_documents(documents) from position i on, when batch b is answered
\* with answers[b]: what each batch sent and got, in order
RECURSIVE import_documents(_, _, _)
import_documents(documents, answers, i) ==
    IF i >= Len(documents) THEN <<>>
    ELSE LET batch == SubSeq(documents, i + 1, PyMin(i + batch_size, Len(documents)))
             sent == send_batch_with_retry(answers[(i \div batch_size) + 1], 0)
         IN <<[batch |-> batch, success |-> sent.success, attempts |-> sent.attempts]>>
            \o import_documents(documents, answers, i + batch_size)

\* import_documents(documents) on documents with the ids 1..n
ImportDocuments ==
    /\ pc = "idle"
    /\ \E n \in 0..MaxDocs :
          LET documents == [d \in 1..n |-> [id |-> d]]
              batches == (n + batch_size - 1) \div batch_size
          IN \E answers \in [1..batches -> [1..max_retries -> BulkResponses]] :
                LET sent == import_documents(documents, answers, 0)
                IN ret' = [op |-> "import_documents", documents |-> documents,
                           answers |-> answers, sent |-> sent,
                           total_imported |->
                               SumSeq([b \in 1..Len(sent) |->
                                          IF sent[b].success THEN Len(sent[b].batch)
                                          ELSE 0])]
    /\ pc' = "returned"
    /\ UNCHANGED <<storeVars, threadVars, clusterVars, toolVars>>

SpecImport == InitSim /\ [][ImportDocuments \/ Return]_vars

-----------------------------------------------------------------------------
(* Properties *)

Min(a, b) == IF a < b THEN a ELSE b

RECURSIVE MaxOf(_)
MaxOf(a) == IF Len(a) = 1 THEN a[1] ELSE LET m == MaxOf(Tail(a)) IN IF a[1] > m THEN a[1] ELSE m

Range(a) == {a[i] : i \in 1..Len(a)}

\* C1: for every corpus of N >= 0 rows, every query and every k >= 0,
\* find_top_k_similar returns exactly min(N, k) indices and min(N, k) scores,
\* and the scores are non-increasing from first to last.
C1_TopKCountAndOrder ==
    ret.op = "topk" =>
        LET m == Min(Len(ret.docs), ret.k)
        IN /\ Len(ret.indices) = m
           /\ Len(ret.scores) = m
           /\ \A i \in 1..(Len(ret.scores) - 1) : ret.scores[i] >= ret.scores[i + 1]

\* a call with more rows than k that returned two different scores
C1_Witness ==
    /\ ret.op = "topk"
    /\ Len(ret.docs) > ret.k
    /\ ret.k >= 2
    /\ ret.scores[1] > ret.scores[2]

\* C2: find_top_k_similar returns the k largest-scoring rows: the indices
\* are pairwise distinct row indices in [0, N), each score is the batch
\* similarity of the row at its index, no row left out scores strictly
\* higher than a returned one, and with N <= k every row index is returned.
C2_TopKSelectsLargest ==
    ret.op = "topk" =>
        LET n == Len(ret.docs)
            sims == calculate_batch_similarity(ret.query, ret.docs)
            m == Len(ret.indices)
        IN /\ \A i \in 1..m : ret.indices[i] \in 0..(n - 1)
           /\ \A i, j \in 1..m : i # j => ret.indices[i] # ret.indices[j]
           /\ Len(ret.scores) = m
           /\ \A i \in 1..m : ret.scores[i] = sims[ret.indices[i] + 1]
           /\ \A row \in (0..(n - 1)) \ Range(ret.indices) :
                 \A i \in 1..m : ~(sims[row + 1] > ret.scores[i])
           /\ n <= ret.k => Range(ret.indices) = 0..(n - 1)

\* a call that left out a row scoring lower than every returned one
C2_Witness ==
    /\ ret.op = "topk"
    /\ ret.k >= 1
    /\ Len(ret.docs) > ret.k
    /\ \E row \in (0..(Len(ret.docs) - 1)) \ Range(ret.indices) :
          \A i \in 1..Len(ret.scores) :
             calculate_batch_similarity(ret.query, ret.docs)[row + 1] < ret.scores[i]

\* C3: every document record returned by search (not the sentinel, not an
\* error record) has similarity_score >= threshold.
C3_ResultsMeetThreshold ==
    ret.op = "search" =>
        \A i \in 1..Len(ret.result) :
           IsDocument(ret.result[i]) => ret.result[i].similarity_score >= ret.threshold

\* a search that returned a document and dropped a top-k entry below the
\* threshold
C3_Witness ==
    /\ ret.op = "search"
    /\ Len(ret.result) >= 1
    /\ IsDocument(ret.result[1])
    /\ \E i \in 1..Len(ret.top[2]) : ret.top[2][i] < ret.threshold

\* C4: when top-k selection yields at least one entry and none has score >=
\* threshold, search returns exactly one sentinel record, with a message and
\* with best_score the highest similarity in the corpus (below the
\* threshold), never an empty list.
C4_SentinelCarriesBestScore ==
    (/\ ret.op = "search"
     /\ Len(ret.top[2]) >= 1
     /\ \A i \in 1..Len(ret.top[2]) : ~(ret.top[2][i] >= ret.threshold))
    => /\ Len(ret.result) = 1
       /\ IsSentinel(ret.result[1])
       /\ ~IsError(ret.result[1])
       /\ ~IsDocument(ret.result[1])
       /\ ret.result[1].best_score =
             MaxOf(calculate_batch_similarity(encode_query(ret.query), embeddings))
       /\ ret.result[1].best_score < ret.threshold

\* a sentinel whose best score is positive and below the threshold
C4_Witness ==
    /\ ret.op = "search"
    /\ Len(ret.top[2]) >= 2
    /\ Len(ret.result) = 1
    /\ IsSentinel(ret.result[1])
    /\ ret.result[1].best_score > 0

\* C5: on an empty corpus (N = 0) or with an empty top-k selection (k = 0)
\* search returns the sentinel record with best_score 0.0, not an error
\* record.
C5_EmptySelectionGivesSentinel ==
    (ret.op = "search" /\ (Len(embeddings) = 0 \/ ret.k = 0))
    => /\ Len(ret.result) = 1
       /\ IsSentinel(ret.result[1])
       /\ ~IsError(ret.result[1])
       /\ ret.result[1].best_score = 0

\* C6: a search that runs while load_data reloads completes against one
\* snapshot, and no result pairs embeddings from one load with metadata
\* from another: the list it returns is the one its top-k selection gives on
\* the embeddings and the metadata of one and the same load.
C6_SearchSeesOneSnapshot ==
    spc = "done" =>
        \E f \in GoodFiles :
           /\ stop \in find_top_k_similar(encode_query(sargs.query), f.emb, sargs.k)
           /\ sresults = SearchWith(LoadedMeta(f), stop, sargs.query, sargs.threshold)

\* C7: search, search_by_embedding and get_document_by_index never change
\* the store; only load_data replaces the embeddings or the metadata.
C7_OnlyLoadDataChangesStore ==
    [][(embeddings' # embeddings \/ metadata' # metadata) => ret'.op = "load_data"]_vars

\* a search has returned documents of a store with embeddings and metadata
C7_Witness ==
    /\ ret.op = "search"
    /\ Len(embeddings) >= 2
    /\ Len(metadata) >= 1
    /\ Len(ret.result) >= 2
    /\ IsDocument(ret.result[1])

\* C8: a query vector whose dimension differs from the store's is a fatal
\* input error surfaced to the caller: search returns neither ranked
\* documents nor the sentinel for it.
C8_DimensionMismatchIsAnError ==
    (/\ ret.op = "search"
     /\ Len(embeddings) >= 1
     /\ Len(encode_query(ret.query)) # Len(embeddings[1]))
    => \A i \in 1..Len(ret.result) :
          IsError(ret.result[i]) /\ ~IsDocument(ret.result[i]) /\ ~IsSentinel(ret.result[i])

\* C9: calculate_batch_similarity returns N values, the value of row i being
\* calculate_cosine_similarity(query, row i); rows of zero norm, and every
\* row when the query has zero norm, get 0.0.
C9_BatchEqualsPerRow ==
    ret.op = "batch" =>
        /\ Len(ret.result) = Len(ret.docs)
        /\ \A i \in 1..Len(ret.docs) :
              /\ ret.result[i] = calculate_cosine_similarity(ret.query, ret.docs[i])
              /\ (Norm(ret.docs[i]) = 0 \/ Norm(ret.query) = 0) => ret.result[i] = 0

\* a batch over a zero row and a row with a non-zero score
C9_Witness ==
    /\ ret.op = "batch"
    /\ \E i, j \in 1..Len(ret.docs) :
          /\ Norm(ret.docs[i]) = 0
          /\ ret.result[j] # 0

\* C10: calculate_cosine_similarity returns 0.0 whenever either vector has
\* zero norm (it never divides by zero), and its result lies in [-1.0, 1.0].
C10_CosineZeroNormAndRange ==
    ret.op = "cosine" =>
        /\ (Norm(ret.vec1) = 0 \/ Norm(ret.vec2) = 0) => ret.result = 0
        /\ ret.result # NaN
        /\ -Scale <= ret.result /\ ret.result <= Scale

\* a call with a zero vector and a non-zero one
C10_Witness ==
    /\ ret.op = "cosine"
    /\ Norm(ret.vec1) = 0
    /\ Norm(ret.vec2) # 0
    /\ ret.result = 0

\* C11 as stated: get_document_by_index(i) returns None for i < 0 or i >= N,
\* metadata record i for 0 <= i < len(metadata), and for len(metadata) <= i < N
\* a stub derived from the embedding that carries index i
C11_IndexLookupAsStated ==
    ret.op = "get_document_by_index" =>
        LET i == ret.idx
            N == Len(embeddings)
        IN /\ (i < 0 \/ i >= N) => ret.result = <<>>
           /\ (0 <= i /\ i < Len(metadata)) => ret.result = <<metadata[i + 1]>>
           /\ (Len(metadata) <= i /\ i < N) =>
                 /\ Len(ret.result) = 1
                 /\ DOMAIN ret.result[1] = {"index", "embedding_shape"}
                 /\ ret.result[1].index = i

\* C11: get_document_by_index(i) returns None for i < 0 or i >= N, metadata
\* record i for 0 <= i < min(len(metadata), N), and for len(metadata) <= i < N
\* a stub derived from the embedding that carries index i
C11_IndexLookupBoundsChecked ==
    ret.op = "get_document_by_index" =>
        LET i == ret.idx
            N == Len(embeddings)
        IN /\ (i < 0 \/ i >= N) => ret.result = <<>>
           /\ (0 <= i /\ i < Len(metadata) /\ i < N) => ret.result = <<metadata[i + 1]>>
           /\ (Len(metadata) <= i /\ i < N) =>
                 /\ Len(ret.result) = 1
                 /\ DOMAIN ret.result[1] = {"index", "embedding_shape"}
                 /\ ret.result[1].index = i
                 /\ ret.result[1].embedding_shape = <<Len(embeddings[i + 1])>>

\* a lookup beyond a metadata list shorter than the matrix returned a stub
C11_Witness ==
    /\ ret.op = "get_document_by_index"
    /\ metadata # <<>>
    /\ Len(metadata) <= ret.idx /\ ret.idx < Len(embeddings)
    /\ ret.result = <<[index |-> ret.idx, embedding_shape |-> <<2>>]>>

\* C12: with a metadata list shorter than the matrix, every entry of the
\* selection that passes the threshold is returned; a hit whose
\* document_index is at or beyond len(metadata) has its index, score,
\* percentage and quality label and no metadata field at all, and a hit
\* below len(metadata) has the fields of metadata[document_index], its own
\* record's
C12_HitsCarryOwnMetadataOnly ==
    ret.op = "search" =>
        LET MetaKeys == {"id", "title", "authors", "categories", "date"}
            BaseKeys == {"query", "document_index", "similarity_score",
                         "similarity_percentage", "match_quality"}
        IN /\ \A j \in 1..Len(ret.top[1]) :
                 Ge(ret.top[2][j], ret.threshold) =>
                    \E i \in 1..Len(ret.result) :
                       /\ IsDocument(ret.result[i])
                       /\ ret.result[i].document_index = ret.top[1][j]
                       /\ ret.result[i].similarity_score = ret.top[2][j]
           /\ \A i \in 1..Len(ret.result) :
                 LET r == ret.result[i]
                 IN IsDocument(r) =>
                       /\ BaseKeys \subseteq DOMAIN r
                       /\ r.document_index >= Len(metadata) => DOMAIN r = BaseKeys
                       /\ r.document_index < Len(metadata) =>
                             LET m == metadata[r.document_index + 1]
                             IN /\ DOMAIN r = BaseKeys \cup MetaKeys
                                /\ \A key \in MetaKeys \cap DOMAIN m : r[key] = m[key]
                                /\ \A key \in MetaKeys \ (DOMAIN m \cup {"id"}) : r[key] = ""

\* a search returned one hit inside the metadata list and one beyond it
C12_Witness ==
    /\ ret.op = "search"
    /\ metadata # <<>>
    /\ \E i, j \in 1..Len(ret.result) :
          /\ IsDocument(ret.result[i]) /\ IsDocument(ret.result[j])
          /\ ret.result[i].document_index < Len(metadata)
          /\ ret.result[j].document_index >= Len(metadata)

\* C13: search_by_embedding returns the empty list, and no sentinel, whenever
\* no entry of the top-k selection has a score at or above the threshold
C13_EmbeddingSearchReturnsPlainEmptyList ==
    ret.op = "search_by_embedding" =>
        ((\A j \in 1..Len(ret.top[2]) : ~Ge(ret.top[2][j], ret.threshold))
            => ret.result = <<>>)

\* a non-empty selection, every score below the threshold, and an empty list
C13_Witness ==
    /\ ret.op = "search_by_embedding"
    /\ Len(ret.top[2]) > 0
    /\ \A j \in 1..Len(ret.top[2]) : Lt(ret.top[2][j], ret.threshold)
    /\ ret.result = <<>>

\* C14: the quality label has inclusive lower bounds (0.8 and above
\* excellent, 0.6 to below 0.8 good, 0.4 to below 0.6 moderate, 0.2 to below
\* 0.4 weak, below 0.2 very weak), and the match_quality of every result of a
\* search is the label of that result's similarity_score
C14_QualityLabelOfOwnScore ==
    LET Labelled(score, label) ==
            /\ 10 * score >= 8 * Scale => label = "Excellente correspondance"
            /\ (10 * score >= 6 * Scale /\ 10 * score < 8 * Scale)
                  => label = "Bonne correspondance"
            /\ (10 * score >= 4 * Scale /\ 10 * score < 6 * Scale)
                  => label = "Correspondance moderee"
            /\ (10 * score >= 2 * Scale /\ 10 * score < 4 * Scale)
                  => label = "Faible correspondance"
            /\ 10 * score < 2 * Scale => label = "Tres faible correspondance"
    IN /\ ret.op = "get_match_quality" => Labelled(ret.score, ret.result)
       /\ ret.op \in {"search", "search_by_embedding"} =>
             \A i \in 1..Len(ret.result) :
                IsDocument(ret.result[i]) =>
                   Labelled(ret.result[i].similarity_score, ret.result[i].match_quality)

\* the label of the smallest score that is at least 0.8
C14_Witness ==
    /\ ret.op = "get_match_quality"
    /\ 10 * ret.score >= 8 * Scale /\ 10 * (ret.score - 1) < 8 * Scale
    /\ ret.result = "Excellente correspondance"

\* C15: convert_to_percentage(score) is ((score + 1) / 2) * 100 clamped to
\* [0, 100]: 1.0 gives 100, -1.0 gives 0, 0.0 gives 50, a larger score never
\* gives a smaller percentage, and no score, inside [-1, 1] or not, gives a
\* percentage outside [0, 100]
C15_PercentageClampedAndMonotone ==
    ret.op = "percentage" =>
        LET score == ret.cosine_score
            linear == 50 * (score + Scale)
        IN /\ ret.result = IF linear < 0 THEN 0
                           ELSE IF linear > 100 * Scale THEN 100 * Scale
                           ELSE linear
           /\ score = Scale => ret.result = 100 * Scale
           /\ score = -Scale => ret.result = 0
           /\ score = 0 => ret.result = 50 * Scale
           /\ 0 <= ret.result /\ ret.result <= 100 * Scale
           /\ \A smaller \in PercentageScores :
                 smaller <= score => convert_to_percentage(smaller) <= ret.result

\* a score above 1.0 gave 100 percent
C15_Witness ==
    /\ ret.op = "percentage"
    /\ ret.cosine_score > Scale
    /\ ret.result = 100 * Scale

\* C16: the labels perform_clustering(k) returns are a function of the
\* current embeddings and of k alone, the labels a fresh k-means fit of these
\* rows gives, whatever clustering calls and reloads came before on the
\* object; they are the labels the object then holds
C16_LabelsDependOnlyOnCorpusAndK ==
    (ret.op = "perform_clustering" /\ ~ret.raised) =>
        /\ ret.labels = KMeansFitPredict(embeddings, ret.n_clusters).labels
        /\ cluster_labels = <<ret.labels>>

\* perform_clustering returned labels other than those an earlier run had
\* saved
C16_Witness ==
    /\ ret.op = "perform_clustering" /\ ~ret.raised
    /\ Cardinality(Unique(ret.labels)) > 1
    /\ labels_file # <<>>
    /\ labels_file[1] # ret.labels

\* C17: two calls of find_optimal_clusters, one after the other on the same
\* corpus with the same max_clusters, sample the same documents and return
\* the same map from k to silhouette score
C17_FindOptimalClustersIsReproducible ==
    [][(/\ ret.op = "find_optimal_clusters"
        /\ ret'.op = "find_optimal_clusters"
        /\ embeddings' = embeddings
        /\ ret'.max_clusters = ret.max_clusters)
          => (/\ Unique(ret'.indices) = Unique(ret.indices)
              /\ ret'.scores = ret.scores)]_vars

\* C18: the sizes of the profiles analyze_clusters(k) returns sum to N: every
\* document's cluster has exactly one profile, every profile's size is the
\* number of documents with its cluster id, and a cluster left out has none
C18_ProfileSizesSumToN ==
    (ret.op = "analyze_clusters" /\ ~ret.raised) =>
        LET profiles == ret.profiles
            labels == cluster_labels[1]
        IN /\ SumSeq([p \in 1..Len(profiles) |-> profiles[p].size]) = Len(embeddings)
           /\ \A i \in 1..Len(embeddings) :
                 Cardinality({p \in 1..Len(profiles) :
                                 profiles[p].cluster_id = labels[i]}) = 1
           /\ \A p \in 1..Len(profiles) :
                 profiles[p].size =
                    Cardinality({i \in 1..Len(labels) : labels[i] = profiles[p].cluster_id})

\* analyze_clusters returned fewer profiles than clusters asked for
C18_Witness ==
    /\ ret.op = "analyze_clusters" /\ ~ret.raised
    /\ Len(embeddings) > 0
    /\ Len(ret.profiles) >= 1 /\ Len(ret.profiles) < ret.n_clusters

\* C19: the labels perform_clustering(k) returns, and the labels
\* save_clustering_results writes, are one per document, each in 0..k-1; the
\* array written is the one the object holds, entry i the cluster the fit
\* gave row i of the current embeddings
C19_LabelsAlignedAndInRange ==
    LET WellFormed(labels, n_clusters) ==
            /\ Len(labels) = Len(embeddings)
            /\ \A i \in 1..Len(labels) : labels[i] \in 0..(n_clusters - 1)
    IN /\ (ret.op = "perform_clustering" /\ ~ret.raised) =>
             WellFormed(ret.labels, ret.n_clusters)
       /\ (ret.op = "save_clustering_results" /\ ~ret.raised) =>
             /\ labels_file # <<>>
             /\ labels_file = cluster_labels
             /\ WellFormed(labels_file[1], ret.n_clusters)
             /\ labels_file[1] = KMeansFitPredict(embeddings, ret.n_clusters).labels

\* save_clustering_results wrote labels of more than one cluster and the
\* profiles it returned
C19_Witness ==
    /\ ret.op = "save_clustering_results" /\ ~ret.raised
    /\ labels_file # <<>>
    /\ Cardinality(Unique(labels_file[1])) > 1
    /\ analysis_file = <<ret.profiles>>

\* C20: the profiles analyze_clusters returns are in non-increasing order of
\* size
C20_ProfilesSortedBySize ==
    (ret.op \in {"analyze_clusters", "save_clustering_results"} /\ ~ret.raised) =>
        \A p \in 1..(Len(ret.profiles) - 1) :
            ret.profiles[p].size >= ret.profiles[p + 1].size

\* a larger cluster with the higher id came first
C20_Witness ==
    /\ ret.op = "analyze_clusters" /\ ~ret.raised
    /\ Len(ret.profiles) >= 2
    /\ ret.profiles[1].size > ret.profiles[2].size
    /\ ret.profiles[1].cluster_id > ret.profiles[2].cluster_id

\* C22 as stated: there are a corpus (one of Corpora, or the one the store
\* holds), a query, a k and a threshold for which a document outside the
\* selected top-k has a score at or above the threshold while a document
\* inside it has a score below the threshold
C22_SelectThenFilterDiffers ==
    \E docs \in Corpora \cup {embeddings}, q \in QueryVecs, k \in 0..MaxK,
       threshold \in Thresholds :
        \E top \in find_top_k_similar(q, docs, k) :
            LET similarities == calculate_batch_similarity(q, docs)
            IN /\ \E i \in 1..Len(docs) :
                     /\ \A j \in 1..Len(top[1]) : top[1][j] # i - 1
                     /\ Ge(similarities[i], threshold)
               /\ \E j \in 1..Len(top[2]) : Lt(top[2][j], threshold)

\* C22: in every search, when a document outside the selected top-k has a
\* score at or above the threshold, every document inside the selected top-k
\* has one too, and the documents returned have the k largest of the scores
\* at or above the threshold, as filter-then-select would return
C22_SelectThenFilterIsFilterThenSelect ==
    ret.op = "search" =>
        LET similarities == calculate_batch_similarity(encode_query(ret.query), embeddings)
            outside == {i \in 1..Len(embeddings) :
                           \A j \in 1..Len(ret.top[1]) : ret.top[1][j] # i - 1}
            passing == {i \in 1..Len(embeddings) : Ge(similarities[i], ret.threshold)}
            returned == {i \in 1..Len(ret.result) : IsDocument(ret.result[i])}
        IN /\ (outside \cap passing # {}) =>
                 \A j \in 1..Len(ret.top[2]) : Ge(ret.top[2][j], ret.threshold)
           /\ Cardinality(returned) = Min(ret.k, Cardinality(passing))
           /\ \A r \in returned, i \in passing :
                 (\A s \in returned : ret.result[s].document_index # i - 1)
                    => ret.result[r].similarity_score >= similarities[i]

\* a search left out a document whose score passes the threshold
C22_Witness ==
    /\ ret.op = "search"
    /\ Len(ret.result) > 0 /\ IsDocument(ret.result[1])
    /\ \E i \in 1..Len(embeddings) :
          /\ \A j \in 1..Len(ret.top[1]) : ret.top[1][j] # i - 1
          /\ Ge(calculate_batch_similarity(encode_query(ret.query), embeddings)[i],
                ret.threshold)

\* C23: the document records search returns, and the list search_by_embedding
\* returns, are the entries of find_top_k_similar's output with a score at or
\* above the threshold, in that output's order: non-increasing in score, and
\* no document from outside the selection
C23_ResultsAreTheFilteredSelection ==
    ret.op \in {"search", "search_by_embedding"} =>
        LET kept == SelectSeq([j \in 1..Len(ret.top[1]) |-> j],
                              LAMBDA j : Ge(ret.top[2][j], ret.threshold))
            documents == SelectSeq(ret.result, IsDocument)
        IN /\ Len(documents) = Len(kept)
           /\ \A p \in 1..Len(kept) :
                 /\ documents[p].document_index = ret.top[1][kept[p]]
                 /\ documents[p].similarity_score = ret.top[2][kept[p]]
           /\ \A p \in 1..(Len(documents) - 1) :
                 documents[p].similarity_score >= documents[p + 1].similarity_score
           /\ ret.op = "search_by_embedding" => ret.result = documents

\* a search returned two documents of different scores and dropped a third
C23_Witness ==
    /\ ret.op = "search"
    /\ Len(ret.result) = 2 /\ Len(ret.top[1]) = 3
    /\ IsDocument(ret.result[1]) /\ IsDocument(ret.result[2])
    /\ ret.result[1].similarity_score > ret.result[2].similarity_score

\* C24: the cluster labels and the k-means model the object holds were
\* computed from the embeddings it holds now: a load_data that replaced the
\* embeddings left no labels and no model behind, so stored labels have one
\* entry per current document
C24_StoredLabelsMatchStore ==
    /\ cluster_labels # <<>> => Len(cluster_labels[1]) = Len(embeddings)
    /\ kmeans_model # <<>> => Len(kmeans_model[1].labels_) = Len(embeddings)

C26_ProfileListsCappedAndFromExaminedMembers ==
    (ret.op \in {"analyze_clusters", "save_clustering_results"} /\ ~ret.raised) =>
        \A p \in 1..Len(ret.profiles) :
            LET profile == ret.profiles[p]
                labels == cluster_labels[1]
                members == {i \in 0..(Len(labels) - 1) : labels[i + 1] = profile.cluster_id}
                examined == {i \in members :
                                /\ Cardinality({j \in members : j < i}) < ExamineCap
                                /\ i < Len(metadata)}
                CategoryCount(category) ==
                    SumSeq([i \in 1..Len(metadata) |->
                        IF (i - 1) \in examined /\ "categories" \in DOMAIN metadata[i]
                        THEN Cardinality({c \in DOMAIN CategoryItems(metadata[i].categories) :
                                            CategoryItems(metadata[i].categories)[c] = category})
                        ELSE 0])
                KeywordCount(keyword) ==
                    SumSeq([i \in 1..Len(metadata) |->
                        IF (i - 1) \in examined /\ "title" \in DOMAIN metadata[i]
                        THEN Cardinality({w \in DOMAIN TitleWords(metadata[i].title) :
                                            TitleWords(metadata[i].title)[w] = keyword})
                        ELSE 0])
            IN /\ Len(profile.top_categories) <= TopCategories
               /\ Len(profile.top_keywords) <= TopKeywords
               /\ Len(profile.sample_titles) <= SampleTitles
               /\ \A c \in 1..Len(profile.top_categories) :
                     /\ profile.top_categories[c].count
                           = CategoryCount(profile.top_categories[c].category)
                     /\ c > 1 => profile.top_categories[c].count
                                    <= profile.top_categories[c - 1].count
               /\ \A w \in 1..Len(profile.top_keywords) :
                     /\ profile.top_keywords[w].count
                           = KeywordCount(profile.top_keywords[w].keyword)
                     /\ w > 1 => profile.top_keywords[w].count
                                    <= profile.top_keywords[w - 1].count
               /\ \A t \in 1..Len(profile.sample_titles) :
                     \E i \in examined : /\ "title" \in DOMAIN metadata[i + 1]
                                          /\ metadata[i + 1].title = profile.sample_titles[t]
               /\ profile.size = Cardinality(members)

\* a profile of a cluster with more members than are examined: its lists are
\* full, the examined members have more categories, keywords and titles than
\* the lists hold, and the member that was not examined has a category that
\* occurs more often than any in the list
C26_Witness ==
    /\ ret.op = "analyze_clusters" /\ ~ret.raised
    /\ embeddings = CorpusB /\ Len(metadata) = 4
    /\ \E p \in 1..Len(ret.profiles) :
          LET profile == ret.profiles[p] IN
          /\ profile.size = 3 /\ profile.size > ExamineCap
          /\ Len(profile.top_categories) = TopCategories
          /\ Len(profile.top_keywords) = TopKeywords
          /\ Len(profile.sample_titles) = SampleTitles
          /\ profile.top_categories[1] = [category |-> "cs.AI", count |-> 3]
          /\ profile.top_keywords[1].count = profile.top_keywords[2].count
          /\ \A c \in 1..Len(profile.top_categories) :
                profile.top_categories[c].category # "cs.CV"

\* C21: after a run of generate_and_save that saved, the metadata file has
\* as many records as the embeddings file has rows, and row i and record i
\* both come from the i-th of the loaded articles that have a title and an
\* abstract, in the order of the input; an article without a title or
\* without an abstract is in neither file
C21_MetadataAlignedWithEmbeddings ==
    (ret.op = "generate_and_save" /\ ret.saved) =>
        LET read == IF ret.limit # 0 THEN Prefix(ret.lines, ret.limit) ELSE ret.lines
            Complete(line) ==
                /\ "title" \in DOMAIN line /\ line.title # ""
                /\ "abstract" \in DOMAIN line /\ line.abstract # ""
            complete == SelectSeq(read, Complete)
            rows == output_file[1]
            records == metadata_file[1]
        IN /\ Len(rows) = Len(complete)
           /\ Len(records) = Len(rows)
           /\ \A i \in 1..Len(complete) :
                 /\ rows[i].encoded.title \in {complete[i].title, "T2"}
                 /\ (rows[i].encoded.title = "T2") = (complete[i].title = " T2 ")
                 /\ rows[i].encoded.abstract = complete[i].abstract
                 /\ records[i].id = complete[i].id
                 /\ records[i].title = complete[i].title

\* a run that saved two rows and two records from a file of three lines, the
\* first of them an article without an abstract
C21_Witness ==
    /\ ret.op = "generate_and_save" /\ ret.saved
    /\ Len(ret.lines) = 3 /\ ret.limit = 0
    /\ ret.lines[1] = [id |-> "3", title |-> "T3"]
    /\ Len(output_file[1]) = 2 /\ Len(metadata_file[1]) = 2
    /\ metadata_file[1][1].id # metadata_file[1][2].id

\* C29: a run of generate_and_save in which no loaded article has both a
\* title and an abstract has not raised and has not saved
C29_NoValidArticleEndsQuietly ==
    (/\ ret.op = "generate_and_save"
     /\ \A i \in 1..Len(load_arxiv_data(ret.lines, ret.limit)) :
           LET article == load_arxiv_data(ret.lines, ret.limit)[i]
           IN MetaGet(article, "title", "") = "" \/ MetaGet(article, "abstract", "") = "")
        => (~ret.raised /\ ~ret.saved)

\* C27: after every step each history holds at most its limit of entries,
\* the newer entry before the older; and a search that is logged puts its
\* entry first and keeps the entries there were, except that from a full
\* history the last, which is the oldest, is dropped
C27_HistoryBoundedNewestFirst ==
    [][LET Ordered(history) ==
               \A i \in 1..(Len(history) - 1) :
                   history[i].timestamp > history[i + 1].timestamp
           Logged(before, after, limit) ==
               /\ after[1] = ret'.entry
               /\ Tail(after) = IF Len(before) = limit
                                THEN SubSeq(before, 1, limit - 1) ELSE before
       IN /\ Len(search_history') <= MAX_HISTORY /\ Ordered(search_history')
          /\ Len(logger_history') <= max_history /\ Ordered(logger_history')
          /\ (pc = "idle" /\ ret'.op = "save_to_history")
                => Logged(search_history, search_history', MAX_HISTORY)
          /\ (pc = "idle" /\ ret'.op = "logger_save_to_history")
                => Logged(logger_history, logger_history', max_history)]_vars

\* a search has just been logged into the full history of the API module,
\* and the entries of the first searches are no longer in it
C27_Witness ==
    /\ ret.op = "save_to_history"
    /\ Len(search_history) = MAX_HISTORY
    /\ search_history[1] = ret.entry
    /\ search_history[MAX_HISTORY].timestamp > 0
    /\ logger_history # <<>>

\* C28: a call of safe_request makes at most RETRIES HTTP requests, and it
\* raises only when RETRIES requests have failed
C28_AtMostRetriesRequests ==
    /\ http_requests <= RETRIES
    /\ request_result = "raised" => http_requests = RETRIES

\* C30 as stated: every batch is posted at most max_retries times and no
\* more after the first answer with status 200; the count returned is the
\* number of documents in the batches whose call returned True, and at most
\* the number of documents given
C30_StopsAtFirst200 ==
    ret.op = "import_documents" =>
        /\ \A b \in 1..Len(ret.sent) :
              /\ ret.sent[b].attempts <= max_retries
              /\ \A a \in 1..(ret.sent[b].attempts - 1) : ret.answers[b][a].status # 200
        /\ ret.total_imported <= Len(ret.documents)

\* C30: every batch is posted at most max_retries times and no more after
\* the first answer with status 200 whose body is JSON, an answer with
\* status 200 whose body is no JSON being one more failed attempt; the call
\* returned True for a batch exactly when that answer reports no errors or
\* errors for fewer than half of its items; the count returned is the number
\* of documents in the batches whose call returned True, and at most the
\* number of documents given
C30_StopsAtFirstParsed200 ==
    ret.op = "import_documents" =>
        LET Parsed(b, a) == ret.answers[b][a].status = 200 /\ ret.answers[b][a].json
            Counted(b) == IF ret.sent[b].success THEN Len(ret.sent[b].batch) ELSE 0
        IN /\ \A b \in 1..Len(ret.sent) :
                 LET last == ret.sent[b].attempts IN
                 /\ last >= 1 /\ last <= max_retries
                 /\ \A a \in 1..(last - 1) : ~Parsed(b, a)
                 /\ last < max_retries => Parsed(b, last)
                 /\ ret.sent[b].success =
                       (/\ Parsed(b, last)
                        /\ (ret.answers[b][last].errors
                               => 2 * ret.answers[b][last].failed < ret.answers[b][last].items))
           /\ ret.total_imported = SumSeq([b \in 1..Len(ret.sent) |-> Counted(b)])
           /\ ret.total_imported <= Len(ret.documents)
           /\ SumSeq([b \in 1..Len(ret.sent) |-> Len(ret.sent[b].batch)]) = Len(ret.documents)

\* an import of two batches: the first was answered 200 with a body that is
\* no JSON, posted again and then accepted; the second was answered 200 with
\* half of its items failed, not posted again and not counted
C30_Witness ==
    /\ ret.op = "import_documents" /\ Len(ret.sent) = 2
    /\ ret.answers[1][1].status = 200 /\ ~ret.answers[1][1].json
    /\ ret.sent[1].attempts = 2 /\ ret.sent[1].success
    /\ ret.sent[2].attempts = 1 /\ ~ret.sent[2].success
    /\ ret.total_imported = batch_size /\ Len(ret.documents) = batch_size + 1
====
